---- MODULE Spec2Model ----
(***************************************************************************)
(* A model of the Halite II simulation kernel                              *)
(* (src/environment/core/Halite.cpp, src/environment/core/SimulationEvent.cpp). *)
(*                                                                         *)
(* Numbers.  The program computes in doubles.  The model keeps every       *)
(* position and velocity on the integer grid (thrust angles are multiples  *)
(* of 90 degrees and drag stops a ship every turn), so                     *)
(* that squared distances, the quadratic of collision_time and the         *)
(* comparisons on its roots are exact integer computations.  An event time *)
(* is held as the integer round(t * EVENT_TIME_PRECISION), which is what   *)
(* round_event_time computes up to the final division.  Attack damage      *)
(* (WEAPON_DAMAGE / k, a double) is held in units of 1 / DamageDenom.      *)
(***************************************************************************)
EXTENDS Integers, Sequences, FiniteSets, TLC

(***************************************************************************)
(* Game configuration.  hlt::GameConstants is a run-time configuration     *)
(* table and the map size is a constructor argument; the values below are  *)
(* one small configuration.                                                *)
(***************************************************************************)
NumPlayers == 3
MaxShips == 2
NumPlanets == 2
MaxTurns == 2
MaxCommands == 2
MaxTimeouts == 1

map_width == 12
map_height == 8
CELL_SIZE == 8
EVENT_TIME_PRECISION == 100
MAX_QUEUED_MOVES == 1

SHIP_RADIUS == 1
WEAPON_RADIUS == 4
WEAPON_DAMAGE == 3
WEAPON_COOLDOWN == 1
MAX_SHIP_HEALTH == 4
EXPLOSION_RADIUS == 2
DOCK_TURNS == 2
DOCK_RADIUS == 2
SPAWN_RADIUS == 3
DOCKED_SHIP_REGENERATION == 1
MAX_SPEED == 3
DRAG == 3
BASE_PRODUCTIVITY == 1
ADDITIONAL_PRODUCTIVITY == 1
PRODUCTION_PER_SHIP == 3
USHORT_MAX == 65535

Players == 0 .. (NumPlayers - 1)
Slots == 0 .. (MaxShips - 1)
PlanetIdx == 0 .. (NumPlanets - 1)

(***************************************************************************)
(* Arithmetic helpers.                                                     *)
(***************************************************************************)
Abs(n) == IF n < 0 THEN -n ELSE n

Min(a, b) == IF a <= b THEN a ELSE b

Max(a, b) == IF a >= b THEN a ELSE b

RECURSIVE SqrtSearch(_, _, _)
SqrtSearch(n, lo, hi) ==
    IF lo >= hi THEN lo
    ELSE LET mid == (lo + hi + 1) \div 2
         IN  IF mid * mid <= n THEN SqrtSearch(n, mid, hi)
             ELSE SqrtSearch(n, lo, mid - 1)

\* floor(sqrt(n)) for 0 <= n < 2^31
FloorSqrt(n) == SqrtSearch(n, 0, Min(n, 46340))

\* ceil(sqrt(n))
CeilSqrt(n) == LET f == FloorSqrt(n) IN IF f * f = n THEN f ELSE f + 1

(***************************************************************************)
(* Entity identities (hlt::EntityId): a tag, the owner and the slot index. *)
(***************************************************************************)
ShipId(p, i) == <<"S", p, i>>

PlanetId(j) == <<"P", 0, j>>

ShipIds == {ShipId(p, i) : p \in Players, i \in Slots}

PlanetIds == {PlanetId(j) : j \in PlanetIdx}

IsShipId(id) == id[1] = "S"

player_id(id) == id[2]

entity_index(id) == id[3]

\* The order in which the program's loops visit ships: by player, then by slot
\* (game_map.ships is a vector, by player, of maps ordered by slot).
ShipRank(id) == id[2] * MaxShips + id[3]

ShipOfRank(k) == ShipId(k \div MaxShips, k % MaxShips)

ShipOrder == [k \in 1 .. (NumPlayers * MaxShips) |-> ShipOfRank(k - 1)]

NoShip == [inmap |-> FALSE, x |-> 0, y |-> 0, vx |-> 0, vy |-> 0, health |-> 0,
           docking_status |-> "Undocked", docked_planet |-> 0,
           docking_progress |-> 0, weapon_cooldown |-> 0]

(***************************************************************************)
(* Collision-time solver (SimulationEvent.cpp).  A time is the exact real  *)
(* (n + sg * sqrt(s)) / d with d > 0, held as a record.                    *)
(***************************************************************************)
NoTime == [ok |-> FALSE, n |-> 0, sg |-> 0, s |-> 0, d |-> 1]

Root(n, sg, s, d) == [ok |-> TRUE, n |-> n, sg |-> sg, s |-> s, d |-> d]

\* n + sg * sqrt(s) >= 0
NumGE0(n, sg, s) ==
    IF sg = 0 THEN n >= 0
    ELSE IF sg = 1 THEN (n >= 0 \/ s >= n * n)
    ELSE (n >= 0 /\ n * n >= s)

TimeGE0(t) == NumGE0(t.n, t.sg, t.s)

TimeLE1(t) == NumGE0(t.d - t.n, 0 - t.sg, t.s)

\* std::round(t * EVENT_TIME_PRECISION), the numerator of round_event_time(t),
\* for t >= 0 (the program rounds no negative time).
round_event_time(t) ==
    LET P == EVENT_TIME_PRECISION
        A == 2 * P * t.n + t.d
    IN  IF t.sg = 0 THEN A \div (2 * t.d)
        ELSE IF t.sg = 1 THEN (A + FloorSqrt(4 * P * P * t.s)) \div (2 * t.d)
        ELSE (A - CeilSqrt(4 * P * P * t.s)) \div (2 * t.d)

\* A solver that always takes the root -b - sqrt(disc)
collision_time_first_root(r, x1, y1, x2, y2, vx1, vy1, vx2, vy2) ==
    LET dx == x1 - x2
        dy == y1 - y2
        dvx == vx1 - vx2
        dvy == vy1 - vy2
        a == dvx * dvx + dvy * dvy
        b == 2 * (dx * dvx + dy * dvy)
        c == dx * dx + dy * dy - r * r
        disc == b * b - 4 * a * c
    IN  IF a = 0 THEN
            IF b = 0 THEN (IF c <= 0 THEN Root(0, 0, 0, 1) ELSE NoTime)
            ELSE LET t == IF b > 0 THEN Root(0 - c, 0, 0, b) ELSE Root(c, 0, 0, 0 - b)
                 IN  IF TimeGE0(t) THEN t ELSE NoTime
        ELSE IF disc = 0 THEN Root(0 - b, 0, 0, 2 * a)
        ELSE IF disc > 0 THEN Root(0 - b, -1, disc, 2 * a)
        ELSE NoTime

collision_time(r, x1, y1, x2, y2, vx1, vy1, vx2, vy2) ==
    LET dx == x1 - x2
        dy == y1 - y2
        dvx == vx1 - vx2
        dvy == vy1 - vy2
        a == dvx * dvx + dvy * dvy
        b == 2 * (dx * dvx + dy * dvy)
        c == dx * dx + dy * dy - r * r
        disc == b * b - 4 * a * c
    IN  IF a = 0 THEN
            IF b = 0 THEN (IF c <= 0 THEN Root(0, 0, 0, 1) ELSE NoTime)
            ELSE LET t == IF b > 0 THEN Root(0 - c, 0, 0, b) ELSE Root(c, 0, 0, 0 - b)
                 IN  IF TimeGE0(t) THEN t ELSE NoTime
        ELSE IF disc = 0 THEN Root(0 - b, 0, 0, 2 * a)
        ELSE IF disc > 0 THEN
            \* t1 = -b + sqrt(disc), t2 = -b - sqrt(disc)
            IF NumGE0(0 - b, 1, disc) /\ NumGE0(0 - b, -1, disc)
            THEN Root(0 - b, -1, disc, 2 * a)
            ELSE Root(0 - b, 1, disc, 2 * a)
        ELSE NoTime

collision_time_ships(r, s1, s2) ==
    collision_time(r, s1.x, s1.y, s2.x, s2.y, s1.vx, s1.vy, s2.vx, s2.vy)

collision_time_planet(r, s1, planet) ==
    collision_time(r, s1.x, s1.y, planet.x, planet.y, s1.vx, s1.vy, 0, 0)

\* Velocity::magnitude.  Exact for the axis-aligned velocities of the model.
Magnitude(vx, vy) == FloorSqrt(vx * vx + vy * vy)

DistSq(x1, y1, x2, y2) == (x1 - x2) * (x1 - x2) + (y1 - y2) * (y1 - y2)

\* sqrt(d2) <= m
DistLeq(d2, m) == m >= 0 /\ d2 <= m * m

might_attack(d2, s1, s2) ==
    DistLeq(d2, Magnitude(s1.vx, s1.vy) + Magnitude(s2.vx, s2.vy) + WEAPON_RADIUS)

might_collide(d2, s1, s2) ==
    DistLeq(d2, Magnitude(s1.vx, s1.vy) + Magnitude(s2.vx, s2.vy)
                + SHIP_RADIUS + SHIP_RADIUS)

Event(type, id1, id2, time) == [type |-> type, id1 |-> id1, id2 |-> id2, time |-> time]

\* SimulationEvent equality, as the unordered event set uses it: same kind,
\* same participants, same time.
SameEvent(e, f) ==
    /\ e.type = f.type
    /\ e.time = f.time
    /\ \/ (e.id1 = f.id1 /\ e.id2 = f.id2)
       \/ (e.id1 = f.id2 /\ e.id2 = f.id1)

\* find_events: the Attack and Collision events of the ordered pair (id1, id2).
find_events(id1, id2, s1, s2) ==
    LET d2 == DistSq(s1.x, s1.y, s2.x, s2.y)
        attack_radius == SHIP_RADIUS + SHIP_RADIUS + WEAPON_RADIUS
        ta == collision_time_ships(attack_radius, s1, s2)
        attack ==
            IF player_id(id1) # player_id(id2) /\ might_attack(d2, s1, s2)
            THEN IF ta.ok /\ TimeGE0(ta) /\ TimeLE1(ta)
                 THEN {Event("Attack", id1, id2, round_event_time(ta))}
                 ELSE IF d2 < attack_radius * attack_radius
                      THEN {Event("Attack", id1, id2, 0)}
                      ELSE {}
            ELSE {}
        collision_radius == SHIP_RADIUS + SHIP_RADIUS
        tc == collision_time_ships(collision_radius, s1, s2)
        collision ==
            IF id1 # id2 /\ might_collide(d2, s1, s2)
            THEN IF tc.ok /\ TimeGE0(tc) /\ TimeLE1(tc)
                 THEN {Event("Collision", id1, id2, round_event_time(tc))}
                 ELSE {}
            ELSE {}
    IN  attack \cup collision

\* The assertion of find_events (line 227): a pair that might collide, has no
\* root and overlaps.
find_events_assert_fails(id1, id2, s1, s2) ==
    LET d2 == DistSq(s1.x, s1.y, s2.x, s2.y)
        collision_radius == SHIP_RADIUS + SHIP_RADIUS
        tc == collision_time_ships(collision_radius, s1, s2)
    IN  /\ id1 # id2
        /\ might_collide(d2, s1, s2)
        /\ ~tc.ok
        /\ d2 < collision_radius * collision_radius

(***************************************************************************)
(* Spatial index (CollisionMap).                                           *)
(***************************************************************************)
GridWidth == (map_width + CELL_SIZE - 1) \div CELL_SIZE

GridHeight == (map_height + CELL_SIZE - 1) \div CELL_SIZE

CellOf(x, y) == <<x \div CELL_SIZE, y \div CELL_SIZE>>

\* The cells CollisionMap::test reads for a query circle.
TestCells(x, y, radius) ==
    LET cell_x == x \div CELL_SIZE
        cell_y == y \div CELL_SIZE
        real_x == CELL_SIZE * cell_x
        real_y == CELL_SIZE * cell_y
        exceeds_left == x - radius < real_x /\ cell_x > 0
        exceeds_right == x + radius >= real_x + CELL_SIZE /\ cell_x < GridWidth
        exceeds_top == y - radius < real_y /\ cell_y > 0
        exceeds_bottom == y + radius >= real_y + CELL_SIZE /\ cell_y < GridHeight
    IN  {<<cell_x, cell_y>>}
        \cup (IF exceeds_left THEN {<<cell_x - 1, cell_y>>} ELSE {})
        \cup (IF exceeds_left /\ exceeds_top THEN {<<cell_x - 1, cell_y - 1>>} ELSE {})
        \cup (IF exceeds_left /\ exceeds_bottom THEN {<<cell_x - 1, cell_y + 1>>} ELSE {})
        \cup (IF exceeds_top THEN {<<cell_x, cell_y - 1>>} ELSE {})
        \cup (IF exceeds_bottom THEN {<<cell_x, cell_y + 1>>} ELSE {})
        \cup (IF exceeds_right THEN {<<cell_x + 1, cell_y>>} ELSE {})
        \cup (IF exceeds_right /\ exceeds_top THEN {<<cell_x + 1, cell_y - 1>>} ELSE {})
        \cup (IF exceeds_right /\ exceeds_bottom THEN {<<cell_x + 1, cell_y + 1>>} ELSE {})

CellExists(c) == c[1] \in 0 .. (GridWidth - 1) /\ c[2] \in 0 .. (GridHeight - 1)

\* cells.at(x).at(y) throws std::out_of_range for a cell outside the grid.
TestThrows(x, y, radius) == \E c \in TestCells(x, y, radius) : ~CellExists(c)

\* CollisionMap::test: the ships bucketed (by rebuild) in the cells read.
CollisionMapTest(sh, x, y, radius) ==
    {id \in ShipIds : sh[id].inmap /\ CellOf(sh[id].x, sh[id].y) \in TestCells(x, y, radius)}

(***************************************************************************)
(* World model.  A world w is a record: sh (game_map.ships), pl            *)
(* (game_map.planets), ev (the events recorded for the frame), dealt       *)
(* (damage_dealt), overflow (the destruction cascade re-entered a node     *)
(* that is still exploding: the recursion of kill_entity does not end).    *)
(***************************************************************************)
IsAlive(w, id) ==
    IF IsShipId(id) THEN w.sh[id].health > 0
    ELSE w.pl[entity_index(id)].health > 0

\* Map::is_valid: the entity is in the map (a ship) or alive (a planet).
is_valid(w, id) ==
    IF IsShipId(id) THEN w.sh[id].inmap
    ELSE entity_index(id) \in PlanetIdx /\ w.pl[entity_index(id)].health > 0

EntityRadius(w, id) == IF IsShipId(id) THEN SHIP_RADIUS ELSE w.pl[entity_index(id)].radius

EntityX(w, id) == IF IsShipId(id) THEN w.sh[id].x ELSE w.pl[entity_index(id)].x

EntityY(w, id) == IF IsShipId(id) THEN w.sh[id].y ELSE w.pl[entity_index(id)].y

EntityHealth(w, id) == IF IsShipId(id) THEN w.sh[id].health ELSE w.pl[entity_index(id)].health

\* Planet::remove_ship: release the slot; a node left without units is unowned.
remove_ship(planet, idx) ==
    LET left == planet.docked_ships \ {idx}
    IN  IF left = {}
        THEN [planet EXCEPT !.docked_ships = {}, !.owned = FALSE, !.owner = 0]
        ELSE [planet EXCEPT !.docked_ships = left]

\* Ship::reset_docking_status
reset_docking_status(ship) ==
    [ship EXCEPT !.docking_status = "Undocked", !.docking_progress = 0,
                 !.docked_planet = 0]

\* Map::unsafe_kill_entity: the entity is dead (health 0); a ship stays in the
\* map until cleanup_entities.
unsafe_kill_entity(w, id) ==
    IF IsShipId(id) THEN [w EXCEPT !.sh[id].health = 0]
    ELSE [w EXCEPT !.pl[entity_index(id)].health = 0]

\* Map::cleanup_entities: dead ships leave the map.
cleanup_entities(sh) ==
    [id \in ShipIds |-> IF sh[id].inmap /\ sh[id].health > 0 THEN sh[id] ELSE NoShip]

\* The entities in visiting order: planets by index, then ships by player and slot.
EntityOrder == [k \in 1 .. NumPlanets |-> PlanetId(k - 1)] \o ShipOrder

\* Map::test: the live planets and the ships of the map whose circle meets the
\* circle (x, y, radius), in visiting order.
MapTest(w, x, y, radius) ==
    LET Hit(id) ==
            /\ IF IsShipId(id) THEN w.sh[id].inmap ELSE w.pl[entity_index(id)].health > 0
            /\ DistLeq(DistSq(x, y, EntityX(w, id), EntityY(w, id)),
                       radius + EntityRadius(w, id))
    IN  SelectSeq(EntityOrder, Hit)

\* planet_explosion_damage(planet, distance) for distance = sqrt(d2) - target_radius
planet_explosion_damage(planet, d2, target_radius) ==
    LET reach == planet.radius + target_radius
    IN  IF d2 < reach * reach THEN USHORT_MAX
        ELSE IF DistLeq(d2, reach + EXPLOSION_RADIUS)
        THEN \* max_ship_hp - (distance_from_crust / (2 * explosion_radius)) * max_ship_hp
             (MAX_SHIP_HEALTH * (2 * EXPLOSION_RADIUS + reach)
                - CeilSqrt(MAX_SHIP_HEALTH * MAX_SHIP_HEALTH * d2))
             \div (2 * EXPLOSION_RADIUS)
        ELSE 0

DestroyedEvent(id, time) == [kind |-> "Destroyed", id |-> id, time |-> time]

RECURSIVE kill_entity(_, _, _, _)
RECURSIVE damage_entity(_, _, _, _, _)
RECURSIVE Explode(_, _, _, _, _)

\* The explosion loop of kill_entity (lines 135-143) over the targets caught.
Explode(w, id, targets, time, stack) ==
    IF targets = << >> \/ w.overflow THEN w
    ELSE LET target_id == Head(targets)
             planet == w.pl[entity_index(id)]
             d2 == DistSq(planet.x, planet.y, EntityX(w, target_id), EntityY(w, target_id))
             damage == planet_explosion_damage(planet, d2, EntityRadius(w, target_id))
         IN  Explode(IF target_id # id
                     THEN damage_entity(w, target_id, damage, time, stack)
                     ELSE w,
                     id, Tail(targets), time, stack)

\* The ShipEntity case of kill_entity (lines 113-122).
UndockKilled(w, id) ==
    IF w.sh[id].docking_status # "Undocked"
    THEN [w EXCEPT
            !.pl[w.sh[id].docked_planet] = remove_ship(@, entity_index(id)),
            !.sh[id].docking_status = "Undocked",
            !.sh[id].docked_planet = 0]
    ELSE w

\* A destruction of a planet that leaves its ships docked
UndockAll_none(w, planet) == w

\* The loop of the PlanetEntity case of kill_entity that undocks the ships
\* (lines 127-131).
UndockAll(w, planet) ==
    [w EXCEPT !.sh =
        [s \in ShipIds |->
            IF player_id(s) = planet.owner /\ entity_index(s) \in planet.docked_ships
            THEN reset_docking_status(w.sh[s])
            ELSE w.sh[s]]]

\* The PlanetEntity case of kill_entity from the query of the map on (lines 133-143).
ExplodePlanet(w, id, planet, time, stack) ==
    Explode(w, id, MapTest(w, planet.x, planet.y, planet.radius + EXPLOSION_RADIUS),
            time, stack \cup {id})

\* The last line of kill_entity, which a recursion without end never reaches.
FinishKill(w, id) == IF w.overflow THEN w ELSE unsafe_kill_entity(w, id)

\* kill_entity once the entity is known to be alive and the DestroyedEvent is recorded.
KillAlive(w, id, time, stack) ==
    IF IsShipId(id)
    THEN FinishKill(UndockKilled(w, id), id)
    ELSE FinishKill(ExplodePlanet(UndockAll(w, w.pl[entity_index(id)]), id,
                                  w.pl[entity_index(id)], time, stack), id)

\* stack holds the planets whose kill_entity is in progress: a call for one of
\* them that finds it alive records its DestroyedEvent again (lines 106-108)
\* and repeats the same call without end.
kill_entity(w, id, time, stack) ==
    IF ~IsAlive(w, id) THEN w
    ELSE IF id \in stack
    THEN [w EXCEPT !.ev = Append(@, DestroyedEvent(id, time)), !.overflow = TRUE]
    ELSE KillAlive([w EXCEPT !.ev = Append(@, DestroyedEvent(id, time))], id, time, stack)

\* damage_entity with the comparison health < damage
damage_entity_strict(w, id, damage, time, stack) ==
    IF EntityHealth(w, id) < damage
    THEN kill_entity(w, id, time, stack)
    ELSE IF IsShipId(id)
         THEN [w EXCEPT !.sh[id].health = @ - damage]
         ELSE [w EXCEPT !.pl[entity_index(id)].health = @ - damage]

damage_entity(w, id, damage, time, stack) ==
    IF EntityHealth(w, id) <= damage
    THEN kill_entity(w, id, time, stack)
    ELSE IF IsShipId(id)
         THEN [w EXCEPT !.sh[id].health = @ - damage]
         ELSE [w EXCEPT !.pl[entity_index(id)].health = @ - damage]

\* compute_damage that gives each ship of a pair the health of the other
compute_damage_other(w, self_id, other_id) ==
    IF IsShipId(self_id)
    THEN LET self == w.sh[self_id]
         IN  <<IF IsShipId(other_id) THEN w.sh[other_id].health ELSE self.health,
               self.health>>
    ELSE LET other == w.sh[other_id]
         IN  <<other.health, other.health>>

\* compute_damage: the damage to self_id and the damage to other_id.
compute_damage(w, self_id, other_id) ==
    IF IsShipId(self_id)
    THEN LET self == w.sh[self_id]
         IN  <<self.health,
               IF IsShipId(other_id) THEN w.sh[other_id].health ELSE self.health>>
    ELSE LET other == w.sh[other_id]
         IN  <<other.health, other.health>>

(***************************************************************************)
(* Event detection (process_events, lines 491-572).                        *)
(***************************************************************************)
\* Map::within_bounds
within_bounds(x, y) == x >= 0 /\ x < map_width /\ y >= 0 /\ y < map_height

\* a / b < t, for b > 0 and a rational t = t.n / t.d
RatLess(a, b, t) == a * t.d < t.n * b

\* if (t1 < time && t1 >= 0) time = t1, for t1 = a / b
TakeEarlier(time, a, b) ==
    IF RatLess(a, b, time) /\ a >= 0 THEN Root(a, 0, 0, b) ELSE time

\* The desertion time of lines 547-562.
desertion_time(ship) ==
    LET time0 == Root(1000000, 0, 0, 1)
        time1 == IF ship.vx > 0 THEN TakeEarlier(time0, 0 - ship.x, ship.vx) ELSE time0
        time2 == IF ship.vx > 0 THEN TakeEarlier(time1, map_width - ship.x, ship.vx)
                 ELSE time1
        time3 == IF ship.vy > 0 THEN TakeEarlier(time2, 0 - ship.y, ship.vy) ELSE time2
        time4 == IF ship.vy > 0 THEN TakeEarlier(time3, map_height - ship.y, ship.vy)
                 ELSE time3
    IN  time4

Deserts(ship) == ~within_bounds(ship.x + ship.vx, ship.y + ship.vy)

\* assert(time >= 0.0 && time <= 1.0), line 564
desertion_assert_fails(ship) ==
    /\ Deserts(ship)
    /\ ~(TimeGE0(desertion_time(ship)) /\ TimeLE1(desertion_time(ship)))

DesertionEvents(id1, ship) ==
    IF Deserts(ship)
    THEN {Event("Desertion", id1, id1, round_event_time(desertion_time(ship)))}
    ELSE {}

\* Ship-planet collisions, lines 513-537.
PlanetEvents(w, id1, ship) ==
    UNION {
      LET planet == w.pl[j]
          d2 == DistSq(ship.x, ship.y, planet.x, planet.y)
          collision_radius == SHIP_RADIUS + planet.radius
          t == collision_time_planet(collision_radius, ship, planet)
      IN  IF /\ planet.health > 0
             /\ DistLeq(d2, Magnitude(ship.vx, ship.vy) + SHIP_RADIUS + planet.radius)
             /\ t.ok /\ TimeGE0(t) /\ TimeLE1(t)
          THEN {Event("Collision", id1, PlanetId(j), round_event_time(t))}
          ELSE {}
      : j \in PlanetIdx }

\* assert(false), line 534
planet_assert_fails(w, ship) ==
    \E j \in PlanetIdx :
      LET planet == w.pl[j]
          d2 == DistSq(ship.x, ship.y, planet.x, planet.y)
          collision_radius == SHIP_RADIUS + planet.radius
          t == collision_time_planet(collision_radius, ship, planet)
      IN  /\ planet.health > 0
          /\ DistLeq(d2, Magnitude(ship.vx, ship.vy) + SHIP_RADIUS + planet.radius)
          /\ ~t.ok
          /\ DistLeq(d2, collision_radius)

\* The events one iteration of the outer loops inserts for ship id1.
EventsOfShip(w, id1) ==
    LET ship1 == w.sh[id1]
        potential_collisions == CollisionMapTest(w.sh, ship1.x, ship1.y, SHIP_RADIUS)
    IN  UNION {find_events(id1, id2, ship1, w.sh[id2]) : id2 \in potential_collisions}
        \cup PlanetEvents(w, id1, ship1)
        \cup DesertionEvents(id1, ship1)

\* How the iteration for ship id1 ends: "ok", or the failure that stops the
\* program there ("out_of_range": cells.at throws; "assert": an assertion of a
\* build with assertions fails).
ShipFailure(w, id1, ndbg) ==
    LET ship1 == w.sh[id1]
    IN  IF TestThrows(ship1.x, ship1.y, SHIP_RADIUS) THEN "out_of_range"
        ELSE IF /\ ~ndbg
                /\ \/ \E id2 \in CollisionMapTest(w.sh, ship1.x, ship1.y, SHIP_RADIUS) :
                          find_events_assert_fails(id1, id2, ship1, w.sh[id2])
                   \/ planet_assert_fails(w, ship1)
                   \/ desertion_assert_fails(ship1)
        THEN "assert"
        ELSE "ok"

RECURSIVE FirstFailure(_, _, _)
FirstFailure(w, k, ndbg) ==
    IF k > Len(ShipOrder) THEN "ok"
    ELSE IF w.sh[ShipOrder[k]].inmap /\ ShipFailure(w, ShipOrder[k], ndbg) # "ok"
         THEN ShipFailure(w, ShipOrder[k], ndbg)
         ELSE FirstFailure(w, k + 1, ndbg)

\* unordered_set::insert: an event equal to one already held is not inserted.
InsertEvents(held, new) == held \cup {e \in new : \A f \in held : ~SameEvent(e, f)}

RECURSIVE CollectEvents(_, _, _)
CollectEvents(w, k, held) ==
    IF k > Len(ShipOrder) THEN held
    ELSE IF w.sh[ShipOrder[k]].inmap
         THEN CollectEvents(w, k + 1, InsertEvents(held, EventsOfShip(w, ShipOrder[k])))
         ELSE CollectEvents(w, k + 1, held)

unsorted_events(w) == CollectEvents(w, 1, {})

(***************************************************************************)
(* Event scheduling (lines 580-607): the events left are popped by         *)
(* ascending time, all events of the least time together.                  *)
(***************************************************************************)
MinTime(events) == CHOOSE t \in {e.time : e \in events} : \A e \in events : t <= e.time

\* A pop that takes one event of the least time only
simultaneous_events_single(events) == {CHOOSE e \in events : e.time = MinTime(events)}

simultaneous_events(events) == {e \in events : e.time = MinTime(events)}

\* remove_if at lines 600-606
LiveEvents(w, events) == {e \in events : is_valid(w, e.id1) /\ is_valid(w, e.id2)}

\* The orders in which a batch can be enumerated: the iteration order of the
\* unordered set, kept by an unstable sort among equal times, is unspecified.
RECURSIVE Orders(_)
Orders(S) ==
    IF S = {} THEN {<< >>}
    ELSE UNION {{<<e>> \o rest : rest \in Orders(S \ {e})} : e \in S}

(***************************************************************************)
(* Resolution of one simultaneous batch (lines 609-693).  The state of the *)
(* resolution is a record b: w (the world), target_count, attackers (the   *)
(* targets of each AttackEvent, in registration order), damage_map (in     *)
(* units of 1 / DamageDenom), and two observers: used_dead (an event was   *)
(* resolved with a participant that an earlier event of the batch had      *)
(* destroyed) and contrib (the damage contributions added to damage_map).  *)
(***************************************************************************)
RECURSIVE Factorial(_)
Factorial(n) == IF n <= 1 THEN 1 ELSE n * Factorial(n - 1)

\* A common denominator of WEAPON_DAMAGE / k for every possible target count k.
DamageDenom == Factorial(NumPlayers * MaxShips)

BatchStart(w) ==
    [w |-> w,
     target_count |-> [id \in ShipIds |-> 0],
     attackers |-> [id \in ShipIds |-> << >>],
     damage_map |-> [id \in ShipIds |-> 0],
     infinite |-> {},
     used_dead |-> FALSE,
     contrib |-> << >>]

\* The guard of update_targets and update_damage.
CanAttack(attacker) ==
    /\ attacker.health > 0
    /\ attacker.weapon_cooldown = 0
    /\ attacker.docking_status = "Undocked"

update_targets(b, src, target, time) ==
    IF ~CanAttack(b.w.sh[src]) THEN b
    ELSE [b EXCEPT
            !.attackers[src] = Append(@, target),
            !.target_count[src] = @ + 1,
            !.w.dealt[player_id(src)] = @ + WEAPON_DAMAGE,
            !.used_dead = @ \/ ~IsAlive(b.w, target)]

\* An update_damage that leaves the cooldown of the attacker alone
update_damage_no_cooldown(b, src, target) ==
    IF ~CanAttack(b.w.sh[src]) THEN b
    ELSE IF b.target_count[src] = 0
    THEN [b EXCEPT !.infinite = @ \cup {target}]
    ELSE LET new_damage == (WEAPON_DAMAGE * DamageDenom) \div b.target_count[src]
         IN  [b EXCEPT
                !.damage_map[target] = @ + new_damage,
                !.contrib = Append(@, [src |-> src, target |-> target,
                                       amount |-> new_damage])]

update_damage(b, src, target) ==
    IF ~CanAttack(b.w.sh[src]) THEN b
    ELSE IF b.target_count[src] = 0
    THEN \* WEAPON_DAMAGE / 0.0: the entry of the target becomes infinite
         [b EXCEPT
            !.w.sh[src].weapon_cooldown = WEAPON_COOLDOWN,
            !.infinite = @ \cup {target}]
    ELSE LET new_damage == (WEAPON_DAMAGE * DamageDenom) \div b.target_count[src]
         IN  [b EXCEPT
                !.w.sh[src].weapon_cooldown = WEAPON_COOLDOWN,
                !.damage_map[target] = @ + new_damage,
                !.contrib = Append(@, [src |-> src, target |-> target,
                                       amount |-> new_damage])]

\* One iteration of the first loop over the batch (lines 638-659).
DamageSecond(w, id2, damage, time) ==
    IF w.overflow THEN w ELSE damage_entity(w, id2, damage, time, {})

\* The Collision case: both calls of damage_entity with the damage computed before.
DamageBoth(w, ev, damage) ==
    DamageSecond(damage_entity(w, ev.id1, damage[1], ev.time, {}),
                 ev.id2, damage[2], ev.time)

ResolveEvent(b, ev) ==
    IF ev.type = "Collision" THEN
        [b EXCEPT !.w = DamageBoth(b.w, ev, compute_damage(b.w, ev.id1, ev.id2)),
                  !.used_dead = @ \/ ~IsAlive(b.w, ev.id1) \/ ~IsAlive(b.w, ev.id2)]
    ELSE IF ev.type = "Desertion" THEN
        [b EXCEPT !.w = damage_entity(b.w, ev.id1, EntityHealth(b.w, ev.id1),
                                      ev.time, {}),
                  !.used_dead = @ \/ ~IsAlive(b.w, ev.id1)]
    ELSE update_targets(update_targets(b, ev.id1, ev.id2, ev.time),
                        ev.id2, ev.id1, ev.time)

RECURSIVE ResolveEvents(_, _)
ResolveEvents(b, evs) ==
    IF evs = << >> \/ b.w.overflow THEN b
    ELSE ResolveEvents(ResolveEvent(b, Head(evs)), Tail(evs))

\* The second loop over the batch (lines 678-683).
RECURSIVE UpdateDamages(_, _)
UpdateDamages(b, evs) ==
    IF evs = << >> THEN b
    ELSE UpdateDamages(IF Head(evs).type = "Attack"
                       THEN update_damage(update_damage(b, Head(evs).id1, Head(evs).id2),
                                          Head(evs).id2, Head(evs).id1)
                       ELSE b,
                       Tail(evs))

AttackEvent(id, targets, time) ==
    [kind |-> "Attack", id |-> id, targets |-> targets, time |-> time]

\* Lines 685-689.  The AttackEvents are recorded here by attacker, in visiting
\* order; the program records them in the iteration order of an unordered map.
RECURSIVE RecordAttacks(_, _, _, _)
RecordAttacks(ev, attackers, time, k) ==
    IF k > Len(ShipOrder) THEN ev
    ELSE LET id == ShipOrder[k]
         IN  RecordAttacks(
               IF attackers[id] # << >>
               THEN Append(ev, AttackEvent(id, attackers[id], time))
               ELSE ev,
               attackers, time, k + 1)

\* static_cast<unsigned short> of the accumulated damage (a double)
TruncDamage(units) == (units \div DamageDenom) % (USHORT_MAX + 1)

\* The values that static_cast<unsigned short> of an infinite double can yield:
\* the conversion is undefined, builds truncate to 0 or saturate.
InfiniteCasts == {0, USHORT_MAX}

\* A process_damage that applies every contribution on its own, each truncated
RECURSIVE process_damage_each(_, _, _, _, _)
process_damage_each(w, b, inf_cast, time, k) ==
    IF k > Len(b.contrib) \/ w.overflow THEN w
    ELSE process_damage_each(
            damage_entity(w, b.contrib[k].target, TruncDamage(b.contrib[k].amount),
                          time, {}),
            b, inf_cast, time, k + 1)

\* process_damage: each ship of the damage map is damaged once, by player and slot.
\* b.infinite holds the ships whose entry is infinite, which inf_cast converts.
RECURSIVE process_damage(_, _, _, _, _)
process_damage(w, b, inf_cast, time, k) ==
    IF k > Len(ShipOrder) \/ w.overflow THEN w
    ELSE process_damage(
            IF ShipOrder[k] \in b.infinite \/ b.damage_map[ShipOrder[k]] > 0
            THEN damage_entity(w, ShipOrder[k],
                               IF ShipOrder[k] \in b.infinite THEN inf_cast
                               ELSE TruncDamage(b.damage_map[ShipOrder[k]]),
                               time, {})
            ELSE w,
            b, inf_cast, time, k + 1)

\* The state of the resolution after both loops over the batch.
BatchLoops(w, evs) == UpdateDamages(ResolveEvents(BatchStart(w), evs), evs)

\* The conversions to choose from: one when no damage of the batch is infinite.
CastChoices(b) == IF b.infinite = {} THEN {0} ELSE InfiniteCasts

\* The end of the body of the while loop (line 693).
CleanupBatch(w) == IF w.overflow THEN w ELSE [w EXCEPT !.sh = cleanup_entities(@)]

\* The body of the while loop after both loops over the batch (lines 685-693).
FinishBatch(b, time, inf_cast) ==
    CleanupBatch(process_damage([b.w EXCEPT !.ev = RecordAttacks(@, b.attackers, time, 1)],
                                b, inf_cast, time, 1))

\* The whole body of the while loop for the batch evs (a sequence, in the order
\* in which the batch is enumerated).
ResolveBatch(w, evs, inf_cast) ==
    FinishBatch(BatchLoops(w, evs), evs[Len(evs)].time, inf_cast)

(***************************************************************************)
(* The phases of a turn (process_next_frame) as functions of the world.    *)
(***************************************************************************)
Noop == [type |-> "Noop"]

\* A thrust along an axis: (dx, dy) is the unit vector of its angle.
Thrust(thrust, dx, dy) == [type |-> "Thrust", thrust |-> thrust, dx |-> dx, dy |-> dy]

Dock(j) == [type |-> "Dock", dock_to |-> j]

Undock == [type |-> "Undock"]

\* A kill_player that leaves the planets of the player as they are
kill_player_ships_only(w, player) ==
    [w EXCEPT
       !.sh = cleanup_entities(
                 [id \in ShipIds |->
                    IF player_id(id) = player /\ w.sh[id].inmap
                    THEN [w.sh[id] EXCEPT !.health = 0]
                    ELSE w.sh[id]])]

\* kill_player without the networking: the ships of the player leave the map
\* with no side effect and its planets are unowned.
kill_player(w, player) ==
    [w EXCEPT
       !.sh = cleanup_entities(
                 [id \in ShipIds |->
                    IF player_id(id) = player /\ w.sh[id].inmap
                    THEN [w.sh[id] EXCEPT !.health = 0]
                    ELSE w.sh[id]]),
       !.pl = [j \in PlanetIdx |->
                 IF w.pl[j].owned /\ w.pl[j].owner = player
                 THEN [w.pl[j] EXCEPT !.owned = FALSE, !.docked_ships = {}]
                 ELSE w.pl[j]]]

\* kill_player for every player of timed_out, by player id (lines 203-211, 934-944).
RECURSIVE KillPlayers(_, _, _)
KillPlayers(w, k, timed_out) ==
    IF k >= NumPlayers THEN w
    ELSE KillPlayers(IF k \in timed_out THEN kill_player(w, k) ELSE w, k + 1, timed_out)

\* Ship::heal
heal(ship, amount) == [ship EXCEPT !.health = Min(@ + amount, MAX_SHIP_HEALTH)]

\* An iteration of process_docking that completes a countdown one call late
DockingOf_late(w, id) ==
    IF ~w.sh[id].inmap THEN w
    ELSE IF w.sh[id].docking_status = "Docking" THEN
        [w EXCEPT !.sh[id].docking_progress = Max(@ - 1, 0),
                  !.sh[id].docking_status =
                      IF w.sh[id].docking_progress = 0 THEN "Docked" ELSE @]
    ELSE IF w.sh[id].docking_status = "Undocking" THEN
        IF w.sh[id].docking_progress = 0
        THEN [w EXCEPT !.sh[id].docking_status = "Undocked",
                       !.pl[w.sh[id].docked_planet] = remove_ship(@, entity_index(id))]
        ELSE [w EXCEPT !.sh[id].docking_progress = @ - 1]
    ELSE IF w.sh[id].docking_status = "Docked" THEN
        [w EXCEPT !.sh[id] = heal(@, DOCKED_SHIP_REGENERATION)]
    ELSE w

\* One iteration of the loop of process_docking (lines 220-241).
DockingOf(w, id) ==
    IF ~w.sh[id].inmap THEN w
    ELSE IF w.sh[id].docking_status = "Docking" THEN
        [w EXCEPT !.sh[id].docking_progress = @ - 1,
                  !.sh[id].docking_status =
                      IF w.sh[id].docking_progress - 1 = 0 THEN "Docked" ELSE @]
    ELSE IF w.sh[id].docking_status = "Undocking" THEN
        IF w.sh[id].docking_progress - 1 = 0
        THEN [w EXCEPT !.sh[id].docking_progress = @ - 1,
                       !.sh[id].docking_status = "Undocked",
                       !.pl[w.sh[id].docked_planet] = remove_ship(@, entity_index(id))]
        ELSE [w EXCEPT !.sh[id].docking_progress = @ - 1]
    ELSE IF w.sh[id].docking_status = "Docked" THEN
        [w EXCEPT !.sh[id] = heal(@, DOCKED_SHIP_REGENERATION)]
    ELSE w

\* A docking phase that advances no countdown
process_docking_none(w, k) == w

\* process_docking.  Its last loop (lines 245-247) sets frozen on a copy of each
\* planet, so it changes no planet of the map.
RECURSIVE process_docking(_, _)
process_docking(w, k) ==
    IF k > Len(ShipOrder) THEN w
    ELSE process_docking(DockingOf(w, ShipOrder[k]), k + 1)

\* Velocity::accelerate_by for a thrust along an axis.  The thrusts of the model
\* start from rest and are at most MAX_SPEED, so the cap on the speed never acts.
accelerate_by(ship, thrust, dx, dy) ==
    [ship EXCEPT !.vx = @ + thrust * dx, !.vy = @ + thrust * dy]

\* Ship::can_dock
can_dock(ship, planet) ==
    DistLeq(DistSq(ship.x, ship.y, planet.x, planet.y),
            SHIP_RADIUS + planet.radius + DOCK_RADIUS)

\* The all_of of lines 406-413: every docked ship of the planet began to dock
\* in this turn.
JustStarted(w, j) ==
    \A i \in w.pl[j].docked_ships :
       /\ w.sh[ShipId(w.pl[j].owner, i)].docking_status = "Docking"
       /\ w.sh[ShipId(w.pl[j].owner, i)].docking_progress = DOCK_TURNS

\* A revert that frees the planet and leaves its ships docking
RevertDocking_planet_only(w, j) ==
    [w EXCEPT !.pl[j] = [@ EXCEPT !.frozen = TRUE, !.docked_ships = {},
                                  !.owned = FALSE, !.owner = 0]]

\* Lines 415-423: nobody gets to dock.
RevertDocking(w, j) ==
    [w EXCEPT
       !.sh = [s \in ShipIds |->
                 IF player_id(s) = w.pl[j].owner /\ entity_index(s) \in w.pl[j].docked_ships
                 THEN reset_docking_status(w.sh[s])
                 ELSE w.sh[s]],
       !.pl[j] = [@ EXCEPT !.frozen = TRUE, !.docked_ships = {},
                           !.owned = FALSE, !.owner = 0]]

\* A dock request that claims nothing
ClaimPlanet_never(w, j, player) == w

\* Lines 392-395
ClaimPlanet(w, j, player) ==
    IF ~w.pl[j].owned THEN [w EXCEPT !.pl[j].owned = TRUE, !.pl[j].owner = player]
    ELSE w

\* A dock request that a planet of another fleet ignores, whoever docks there
DockOrRevert_first_wins(w, id, j) ==
    IF /\ w.pl[j].owner = player_id(id)
       /\ Cardinality(w.pl[j].docked_ships) < w.pl[j].docking_spots
    THEN [w EXCEPT !.sh[id].docked_planet = j,
                   !.sh[id].docking_status = "Docking",
                   !.sh[id].docking_progress = DOCK_TURNS,
                   !.pl[j].docked_ships = @ \cup {entity_index(id)}]
    ELSE w

\* A docking that does not count the ships already at the planet
DockOrRevert_any_number(w, id, j) ==
    IF w.pl[j].owner = player_id(id)
    THEN [w EXCEPT !.sh[id].docked_planet = j,
                   !.sh[id].docking_status = "Docking",
                   !.sh[id].docking_progress = DOCK_TURNS,
                   !.pl[j].docked_ships = @ \cup {entity_index(id)}]
    ELSE IF w.pl[j].owner # player_id(id) /\ JustStarted(w, j)
    THEN RevertDocking(w, j)
    ELSE w

\* Lines 397-425
DockOrRevert(w, id, j) ==
    IF /\ w.pl[j].owner = player_id(id)
       /\ Cardinality(w.pl[j].docked_ships) < w.pl[j].docking_spots
    THEN [w EXCEPT !.sh[id].docked_planet = j,
                   !.sh[id].docking_status = "Docking",
                   !.sh[id].docking_progress = DOCK_TURNS,
                   !.pl[j].docked_ships = @ \cup {entity_index(id)}]
    ELSE IF w.pl[j].owner # player_id(id) /\ JustStarted(w, j)
    THEN RevertDocking(w, j)
    ELSE w

\* A Dock case that does not look at the frozen flag of the planet
DockMove_ignores_frozen(w, id, j) ==
    IF \/ w.sh[id].docking_status # "Undocked"
       \/ w.sh[id].vx # 0
       \/ w.sh[id].vy # 0
    THEN w
    ELSE IF j >= NumPlanets THEN w
    ELSE IF \/ ~(w.pl[j].health > 0)
            \/ ~can_dock(w.sh[id], w.pl[j])
    THEN w
    ELSE DockOrRevert(ClaimPlanet(w, j, player_id(id)), id, j)

\* The Dock case of process_moves (lines 372-429).
DockMove(w, id, j) ==
    IF \/ w.sh[id].docking_status # "Undocked"
       \/ w.sh[id].vx # 0
       \/ w.sh[id].vy # 0
    THEN w
    ELSE IF j >= NumPlanets THEN w
    ELSE IF \/ ~(w.pl[j].health > 0)
            \/ ~can_dock(w.sh[id], w.pl[j])
            \/ w.pl[j].frozen
    THEN w
    ELSE DockOrRevert(ClaimPlanet(w, j, player_id(id)), id, j)

\* A switch of process_moves that accelerates a ship whatever its docking status
ApplyMove_thrust_always(w, id, move) ==
    IF move.type = "Thrust" THEN
        [w EXCEPT !.sh[id] = accelerate_by(@, move.thrust, move.dx, move.dy)]
    ELSE IF move.type = "Dock" THEN DockMove(w, id, move.dock_to)
    ELSE IF move.type = "Undock" THEN
        IF w.sh[id].docking_status # "Docked" THEN w
        ELSE [w EXCEPT !.sh[id].docking_status = "Undocking",
                       !.sh[id].docking_progress = DOCK_TURNS]
    ELSE w

\* The switch of process_moves for the move of ship id (lines 360-439).
ApplyMove(w, id, move) ==
    IF move.type = "Thrust" THEN
        IF w.sh[id].docking_status # "Undocked" THEN w
        ELSE [w EXCEPT !.sh[id] = accelerate_by(@, move.thrust, move.dx, move.dy)]
    ELSE IF move.type = "Dock" THEN DockMove(w, id, move.dock_to)
    ELSE IF move.type = "Undock" THEN
        IF w.sh[id].docking_status # "Docked" THEN w
        ELSE [w EXCEPT !.sh[id].docking_status = "Undocking",
                       !.sh[id].docking_progress = DOCK_TURNS]
    ELSE w

\* process_moves: the ships of the players alive at the start of the frame, by
\* player and slot.
RECURSIVE process_moves(_, _, _, _)
process_moves(w, alive, moves, k) ==
    IF k > Len(ShipOrder) THEN w
    ELSE process_moves(
            IF alive[player_id(ShipOrder[k])] /\ w.sh[ShipOrder[k]].inmap
            THEN ApplyMove(w, ShipOrder[k], moves[ShipOrder[k]])
            ELSE w,
            alive, moves, k + 1)

\* Planet::num_docked_ships: the docked ships whose docking is complete.
num_docked_ships(w, planet) ==
    Cardinality({i \in planet.docked_ships :
                    /\ w.sh[ShipId(planet.owner, i)].inmap
                    /\ w.sh[ShipId(planet.owner, i)].docking_status = "Docked"})

\* An accrual that takes nothing from the remaining production
Accrue_from_nothing(planet, n) ==
    [planet EXCEPT
       !.current_production =
           @ + BASE_PRODUCTIVITY + (n - 1) * ADDITIONAL_PRODUCTIVITY]

\* Lines 262-269
Accrue(planet, n) ==
    [planet EXCEPT
       !.remaining_production =
           @ - Min(planet.remaining_production,
                   BASE_PRODUCTIVITY + (n - 1) * ADDITIONAL_PRODUCTIVITY),
       !.current_production =
           @ + Min(planet.remaining_production,
                   BASE_PRODUCTIVITY + (n - 1) * ADDITIONAL_PRODUCTIVITY)]

\* The offsets (dx, dy) of the spawn search in the order of its loops.  Only the
\* offsets on an axis are kept: for those dx + radius * cos(atan2(dy, dx)) is an
\* integer.
SpawnDeltas ==
    LET R == (0 - SPAWN_RADIUS) .. SPAWN_RADIUS
        N == 2 * SPAWN_RADIUS + 1
        All == [k \in 1 .. (N * N) |->
                  <<((k - 1) \div N) - SPAWN_RADIUS, ((k - 1) % N) - SPAWN_RADIUS>>]
    IN  SelectSeq(All, LAMBDA d : d[1] = 0 \/ d[2] = 0)

Sign(n) == IF n > 0 THEN 1 ELSE IF n < 0 THEN 0 - 1 ELSE 0

\* The location of lines 283-287 for the offset d.
SpawnLocation(planet, d) ==
    IF d[1] = 0 /\ d[2] = 0 THEN <<planet.x + planet.radius, planet.y>>
    ELSE <<planet.x + d[1] + planet.radius * Sign(d[1]),
           planet.y + d[2] + planet.radius * Sign(d[2])>>

\* Four times the squared distance to the center of the map
CenterDistSq(loc) ==
    (2 * loc[1] - map_width) * (2 * loc[1] - map_width)
    + (2 * loc[2] - map_height) * (2 * loc[2] - map_height)

NoLocation == [ok |-> FALSE, x |-> 0, y |-> 0, dist |-> 0]

\* One iteration of the spawn search (lines 281-297).
BetterLocation(w, loc, best) ==
    IF ~within_bounds(loc[1], loc[2]) THEN best
    ELSE IF /\ (~best.ok \/ CenterDistSq(loc) < best.dist)
            /\ MapTest(w, loc[1], loc[2], 2 * SHIP_RADIUS) = << >>
    THEN [ok |-> TRUE, x |-> loc[1], y |-> loc[2], dist |-> CenterDistSq(loc)]
    ELSE best

RECURSIVE best_location(_, _, _, _)
best_location(w, planet, k, best) ==
    IF k > Len(SpawnDeltas) THEN best
    ELSE best_location(w, planet, k + 1,
                       BetterLocation(w, SpawnLocation(planet, SpawnDeltas[k]), best))

SpawnEvent(id, x, y) == [kind |-> "Spawn", id |-> id, x |-> x, y |-> y]

\* Lines 299-307 with Map::spawn_ship: the new ship takes the next index of its fleet.
SpawnAt(w, j, best) ==
    [w EXCEPT
       !.pl[j].current_production = @ - PRODUCTION_PER_SHIP,
       !.sh[ShipId(w.pl[j].owner, w.next[w.pl[j].owner])] =
           [inmap |-> TRUE, x |-> best.x, y |-> best.y, vx |-> 0, vy |-> 0,
            health |-> MAX_SHIP_HEALTH, docking_status |-> "Undocked",
            docked_planet |-> 0, docking_progress |-> 0, weapon_cooldown |-> 0],
       !.next[w.pl[j].owner] = @ + 1,
       !.count[w.pl[j].owner] = @ + 1,
       !.ev = Append(@, SpawnEvent(ShipId(w.pl[j].owner, w.next[w.pl[j].owner]),
                                   best.x, best.y))]

RECURSIVE SpawnShips(_, _)

\* One iteration of the while loop of lines 272-312.  full: the fleet has no
\* index left in the model for the ship.
SpawnOrStop(w, j, best) ==
    IF ~best.ok THEN w
    ELSE IF w.next[w.pl[j].owner] >= MaxShips THEN [w EXCEPT !.full = TRUE]
    ELSE SpawnShips(SpawnAt(w, j, best), j)

SpawnShips(w, j) ==
    IF w.pl[j].current_production < PRODUCTION_PER_SHIP THEN w
    ELSE SpawnOrStop(w, j, best_location(w, w.pl[j], 1, NoLocation))

\* The body of the loop of process_production for planet j.
ProductionOf(w, j) ==
    IF ~(w.pl[j].health > 0) \/ ~w.pl[j].owned THEN w
    ELSE IF num_docked_ships(w, w.pl[j]) = 0 THEN w
    ELSE SpawnShips([w EXCEPT !.pl[j] = Accrue(@, num_docked_ships(w, w.pl[j]))], j)

\* process_production on w: sh, pl, ev, count (total_ship_count), next (the next
\* ship index of each fleet), full.
RECURSIVE process_production(_, _)
process_production(w, j) ==
    IF j >= NumPlanets \/ w.full THEN w
    ELSE process_production(ProductionOf(w, j), j + 1)

\* process_drag.  Velocities lie on an axis.
process_drag(sh) ==
    [id \in ShipIds |->
        IF ~sh[id].inmap THEN sh[id]
        ELSE IF DistLeq(sh[id].vx * sh[id].vx + sh[id].vy * sh[id].vy, DRAG)
        THEN [sh[id] EXCEPT !.vx = 0, !.vy = 0]
        ELSE [sh[id] EXCEPT !.vx = @ - DRAG * Sign(@), !.vy = @ - DRAG * Sign(@)]]

process_cooldowns(sh) ==
    [id \in ShipIds |->
        IF sh[id].inmap /\ sh[id].weapon_cooldown > 0
        THEN [sh[id] EXCEPT !.weapon_cooldown = @ - 1]
        ELSE sh[id]]

\* owned_planets[player] of find_living_players (lines 463-475)
owned_planets(w, player) ==
    Cardinality({j \in PlanetIdx :
                    /\ w.pl[j].health > 0
                    /\ w.pl[j].owned
                    /\ Cardinality(w.pl[j].docked_ships) > 0
                    /\ num_docked_ships(w, w.pl[j]) > 0
                    /\ w.pl[j].owner = player})

total_planets(w) == Cardinality({j \in PlanetIdx : w.pl[j].health > 0})

\* The loop of lines 478-487.
RECURSIVE StillAlive(_, _, _)
StillAlive(w, still_alive, player) ==
    IF player >= NumPlayers THEN still_alive
    ELSE StillAlive(w,
                    IF owned_planets(w, player) = total_planets(w)
                    THEN [p \in Players |-> NumPlayers > 1 /\ p = player]
                    ELSE still_alive,
                    player + 1)

find_living_players(w) ==
    StillAlive(w, [p \in Players |-> \E id \in ShipIds : player_id(id) = p /\ w.sh[id].inmap],
               0)

\* compare_rankings on the counters count (total_ship_count) and dealt (damage_dealt)
compare_rankings(count, dealt, player1, player2) ==
    IF count[player1] = count[player2] THEN dealt[player1] < dealt[player2]
    ELSE count[player1] < count[player2]

\* std::stable_sort by compare_rankings of the players of S taken by player id
RECURSIVE SortRanking(_, _, _)
SortRanking(S, count, dealt) ==
    IF S = {} THEN << >>
    ELSE LET first == CHOOSE p \in S :
                         \A q \in S \ {p} :
                            \/ compare_rankings(count, dealt, p, q)
                            \/ (~compare_rankings(count, dealt, q, p) /\ p < q)
         IN  <<first>> \o SortRanking(S \ {first}, count, dealt)

Reverse(seq) == [k \in 1 .. Len(seq) |-> seq[Len(seq) + 1 - k]]

(***************************************************************************)
(* State.                                                                  *)
(***************************************************************************)
VARIABLES
    ships,             \* game_map.ships
    planets,           \* game_map.planets
    frame_events,      \* full_frame_events, the events recorded so far
    damage_dealt,      \* damage_dealt, by player
    total_ship_count,  \* total_ship_count, by player
    next_index,        \* the index that Map::spawn_ship gives the next ship, by player
    pending,           \* sorted_events: the events of the sub-step not yet popped
    batch_times,       \* the times of the batches popped in this sub-step, in order
    pc,                \* the position of the program in run_game / process_next_frame
    turn_number,       \* turn_number
    living_players,    \* living_players of run_game, the alive of process_next_frame
    rankings,          \* rankings of run_game
    move_no,           \* move_no, the sub-step of process_next_frame
    player_moves,      \* player_moves, by sub-step and ship
    commands_left,     \* how many more commands the controllers may issue
    timeouts_left,     \* how many more controllers may time out
    crashed,           \* "no", or why the program stopped
    ndebug,            \* the build: TRUE when assertions are compiled out
    last_batch,        \* history: the latest iteration of the while loop of process_events
    probe,             \* the arguments of a function applied on its own
    result             \* what the function returned for probe

vars == <<ships, planets, frame_events, damage_dealt, total_ship_count, next_index, pending,
          batch_times, pc, turn_number, living_players, rankings, move_no, player_moves,
          commands_left, timeouts_left, crashed, ndebug, last_batch, probe, result>>

World == [sh |-> ships, pl |-> planets, ev |-> frame_events, dealt |-> damage_dealt,
          overflow |-> FALSE]

\* The history of an iteration of the while loop: the world before it, the events
\* popped, the batch as enumerated (empty when skipped) and the conversion of an
\* infinite damage.
Batch(w, popped, evs, inf_cast) ==
    [w |-> w, popped |-> popped, evs |-> evs, inf_cast |-> inf_cast]

NoBatch == Batch([sh |-> << >>, pl |-> << >>, ev |-> << >>, dealt |-> << >>,
                  overflow |-> FALSE], {}, << >>, 0)

\* An undocked ship
Ship(x, y, vx, vy, health, cooldown) ==
    [inmap |-> TRUE, x |-> x, y |-> y, vx |-> vx, vy |-> vy, health |-> health,
     docking_status |-> "Undocked", docked_planet |-> 0, docking_progress |-> 0,
     weapon_cooldown |-> cooldown]

\* A ship at rest that is docking, docked or undocking at planet j
DockedShip(x, y, health, status, j, progress) ==
    [inmap |-> TRUE, x |-> x, y |-> y, vx |-> 0, vy |-> 0, health |-> health,
     docking_status |-> status, docked_planet |-> j, docking_progress |-> progress,
     weapon_cooldown |-> 0]

Planet(x, y, radius, health, owned, owner, docked, spots, production) ==
    [x |-> x, y |-> y, radius |-> radius, health |-> health, owned |-> owned,
     owner |-> owner, docked_ships |-> docked, frozen |-> FALSE,
     docking_spots |-> spots, remaining_production |-> production,
     current_production |-> 0]

\* A planet slot of the vector that holds a dead planet
DeadPlanet == Planet(0, 0, 1, 0, FALSE, 0, {}, 0, 0)

NoShips == [id \in ShipIds |-> NoShip]

Fleet(a0, a1, b0, b1) ==
    [id \in ShipIds |->
        IF id = ShipId(0, 0) THEN a0
        ELSE IF id = ShipId(0, 1) THEN a1
        ELSE IF id = ShipId(1, 0) THEN b0
        ELSE IF id = ShipId(1, 1) THEN b1
        ELSE NoShip]

Planets(p0, p1) == [j \in PlanetIdx |-> IF j = 0 THEN p0 ELSE IF j = 1 THEN p1 ELSE DeadPlanet]

\* No function is applied on its own.
NoProbe == [kind |-> "none"]

NoMoves == [m \in 0 .. (MAX_QUEUED_MOVES - 1) |-> [id \in ShipIds |-> [type |-> "Noop"]]]

(***************************************************************************)
(* The sub-step: process_events and process_movement.                      *)
(***************************************************************************)
\* process_events up to the sort (lines 491-587).
DetectEvents ==
    /\ pc = "events"
    /\ FirstFailure(World, 1, ndebug) = "ok"
    /\ pending' = unsorted_events(World)
    /\ batch_times' = << >>
    /\ last_batch' = NoBatch
    /\ pc' = "batches"
    /\ UNCHANGED <<ships, planets, frame_events, damage_dealt, total_ship_count,
                   next_index, turn_number, living_players, rankings, move_no,
                   player_moves, commands_left, timeouts_left, crashed, ndebug,
                   probe, result>>

\* process_events stopped by an exception or a failed assertion.
DetectEventsFails ==
    /\ pc = "events"
    /\ FirstFailure(World, 1, ndebug) # "ok"
    /\ crashed' = FirstFailure(World, 1, ndebug)
    /\ pc' = "crashed"
    /\ UNCHANGED <<ships, planets, frame_events, damage_dealt, total_ship_count,
                   next_index, pending, batch_times, turn_number, living_players,
                   rankings, move_no, player_moves, commands_left, timeouts_left,
                   ndebug, last_batch, probe, result>>

\* The world w becomes the state of the program.
StoreWorld(w) ==
    /\ ships' = w.sh
    /\ planets' = w.pl
    /\ frame_events' = w.ev
    /\ damage_dealt' = w.dealt
    /\ crashed' = IF w.overflow THEN "stack_overflow" ELSE crashed
    /\ pc' = IF w.overflow THEN "crashed" ELSE pc

\* One iteration of the while loop (lines 589-694) whose batch is not empty.
ResolveBatchStep ==
    /\ pc = "batches"
    /\ pending # {}
    /\ LiveEvents(World, simultaneous_events(pending)) # {}
    /\ \E evs \in Orders(LiveEvents(World, simultaneous_events(pending))) :
       \E inf_cast \in CastChoices(BatchLoops(World, evs)) :
         /\ StoreWorld(ResolveBatch(World, evs, inf_cast))
         /\ last_batch' = Batch(World, simultaneous_events(pending), evs, inf_cast)
    /\ pending' = pending \ simultaneous_events(pending)
    /\ batch_times' = Append(batch_times, MinTime(pending))
    /\ UNCHANGED <<total_ship_count, next_index, turn_number, living_players, rankings,
                   move_no, player_moves, commands_left, timeouts_left, ndebug,
                   probe, result>>

\* One iteration of the while loop whose batch holds only events of entities
\* that are no longer in the map (line 607).
SkipBatch ==
    /\ pc = "batches"
    /\ pending # {}
    /\ LiveEvents(World, simultaneous_events(pending)) = {}
    /\ pending' = pending \ simultaneous_events(pending)
    /\ batch_times' = Append(batch_times, MinTime(pending))
    /\ last_batch' = Batch(World, simultaneous_events(pending), << >>, 0)
    /\ UNCHANGED <<ships, planets, frame_events, damage_dealt, total_ship_count,
                   next_index, pc, turn_number, living_players, rankings, move_no,
                   player_moves, commands_left, timeouts_left, crashed, ndebug,
                   probe, result>>

\* process_movement, and the step of the sub-step loop of process_next_frame.
process_movement(sh) ==
    [id \in ShipIds |->
        IF sh[id].inmap
        THEN [sh[id] EXCEPT !.x = @ + sh[id].vx, !.y = @ + sh[id].vy]
        ELSE sh[id]]

ProcessMovement ==
    /\ pc = "batches"
    /\ pending = {}
    /\ ships' = process_movement(ships)
    /\ move_no' = IF move_no + 1 < MAX_QUEUED_MOVES THEN move_no + 1 ELSE 0
    /\ pc' = IF move_no + 1 < MAX_QUEUED_MOVES THEN "moves" ELSE "production"
    /\ UNCHANGED <<planets, frame_events, damage_dealt, total_ship_count, next_index,
                   pending, batch_times, turn_number, living_players, rankings,
                   player_moves, commands_left, timeouts_left, crashed, ndebug,
                   last_batch, probe, result>>

(***************************************************************************)
(* Worlds at the start of a sub-step, for the specification of the         *)
(* sub-step alone.  Every ship is inside the map with 1 <= health <=       *)
(* MAX_SHIP_HEALTH, no two bodies overlap, docked ships are at rest.       *)
(***************************************************************************)
Far == Ship(10, 1, 0, 0, MAX_SHIP_HEALTH, 0)

\* Two ships of different fleets on the line x = 4.
DuelWorlds ==
    {[sh |-> Fleet(Ship(4, ya, 0, va, ha, ca), NoShip, Ship(4, yb, 0, vb, hb, 0), NoShip),
      pl |-> Planets(DeadPlanet, DeadPlanet)] :
        ya \in {4, 5}, va \in {-3, -2, 0, 1, 3}, yb \in {0, 1}, vb \in {-1, 0, 2, 3},
        ha \in {2, 4}, hb \in {1, 4}, ca \in {0, 1}}

\* Two ships of each fleet at rest, every ship within weapon range of both enemies.
MeleeWorlds ==
    {[sh |-> Fleet(Ship(3, 3, 0, 0, h[1], c[1]), Ship(5, 5, 0, 0, h[2], c[2]),
                   Ship(6, 3, 0, 0, h[3], 0), Ship(3, 6, 0, 0, h[4], 0)),
      pl |-> Planets(DeadPlanet, DeadPlanet)] :
        h \in [1 .. 4 -> {1, 2, 4}], c \in [1 .. 2 -> {0, 1}]}

\* One ship that runs between two ships, touching both at the same time.
PincerWorlds ==
    {[sh |-> Fleet(Ship(3, 4, 3, 0, ha, 0), o, Ship(6, 6, 0, 0, hb, c[1]),
                   Ship(6, 2, 0, 0, 4, c[2])),
      pl |-> Planets(DeadPlanet, DeadPlanet)] :
        ha \in {1, 3, 4}, hb \in {2, 4}, c \in [1 .. 2 -> {0, 1}],
        o \in {NoShip, Ship(1, 1, 0, 0, 4, 0)}}

\* One ship near an edge of the map, with a velocity in each direction.
EdgeWorlds ==
    {[sh |-> Fleet(Ship(p[1], p[2], v[1], v[2], 4, 0), NoShip, Far, NoShip),
      pl |-> Planets(DeadPlanet, DeadPlanet)] :
        p \in {<<1, 3>>, <<5, 1>>, <<5, 6>>, <<2, 2>>},
        v \in {<<-2, 0>>, <<-3, 0>>, <<0, -2>>, <<0, 3>>, <<0, 2>>, <<1, 0>>}}

\* A ship that runs into a planet with a docked ship, with a second planet in
\* reach of the explosion of the first.
PlanetWorlds ==
    {[sh |-> Fleet(Ship(2, 4, va, 0, ha, 0), NoShip,
                   DockedShip(6, 0, hb, st, 0, 1), NoShip),
      pl |-> Planets(Planet(6, 4, 2, h0, TRUE, 1, {0}, 2, 6),
                     IF h1 = 0 THEN DeadPlanet
                     ELSE Planet(10, 4, 1, h1, FALSE, 0, {}, 1, 6))] :
        va \in {0, 2, 3}, ha \in {2, 4}, hb \in {3, 4}, st \in {"Docked", "Docking"},
        h0 \in {2, 4, 9}, h1 \in {0, 1, 3, 9}}

\* Two ships of different fleets in the same cell of the spatial index that
\* start outside weapon range, one or both moving.
ClosingWorlds ==
    {[sh |-> Fleet(Ship(p[1], p[2], p[3], p[4], 4, 0), NoShip,
                   Ship(q[1], q[2], q[3], q[4], 4, 0), NoShip),
      pl |-> Planets(DeadPlanet, DeadPlanet)] :
        p \in {<<0, 4, 1, 0>>, <<0, 4, 2, 0>>, <<0, 4, 3, 0>>, <<1, 1, 3, 0>>, <<1, 1, 0, 3>>},
        q \in {<<7, 4, 0, 0>>, <<7, 4, -1, 0>>, <<7, 4, -2, 0>>, <<7, 6, 0, 0>>,
               <<7, 6, -2, 0>>}}

\* A ship that touches a ship of its fleet at the time it runs into a planet.
GrazeWorlds ==
    {[sh |-> Fleet(Ship(2, 4, 3, 0, ha, 0), Ship(3, 6, 0, 0, hc, 0), NoShip, NoShip),
      pl |-> Planets(Planet(6, 4, 2, h0, FALSE, 0, {}, 2, 6), DeadPlanet)] :
        ha \in {2, 4}, hc \in {1, 4}, h0 \in {2, 3, 9}}

\* A ship that comes within weapon range of an enemy at the time it touches
\* a ship of its own fleet; the enemy and that ship are in range from the start.
ContactWorlds ==
    {[sh |-> Fleet(Ship(0, 4, 3, 0, ha, 0), Ship(3, 4, 0, 0, 4, c[1]),
                   Ship(7, 4, 0, 0, he, c[2]), NoShip),
      pl |-> Planets(DeadPlanet, DeadPlanet)] :
        ha \in {2, 4}, he \in {3, 4}, c \in [1 .. 2 -> {0, 1}]}

CombatWorlds == DuelWorlds \cup MeleeWorlds \cup PincerWorlds \cup EdgeWorlds
                \cup PlanetWorlds \cup ClosingWorlds \cup GrazeWorlds
                \cup ContactWorlds

InitCombat ==
    /\ \E cw \in CombatWorlds : ships = cw.sh /\ planets = cw.pl
    /\ frame_events = << >>
    /\ damage_dealt = [p \in Players |-> 0]
    /\ total_ship_count = [p \in Players |-> 0]
    /\ next_index = [p \in Players |-> MaxShips]
    /\ pending = {}
    /\ batch_times = << >>
    /\ pc = "events"
    /\ turn_number = 1
    /\ living_players = [p \in Players |-> TRUE]
    /\ rankings = << >>
    /\ move_no = 0
    /\ player_moves = NoMoves
    /\ commands_left = 0
    /\ timeouts_left = 0
    /\ crashed = "no"
    /\ ndebug \in BOOLEAN
    /\ last_batch = NoBatch
    /\ probe = NoProbe
    /\ result = NoProbe

NextCombat == DetectEvents \/ DetectEventsFails \/ ResolveBatchStep \/ SkipBatch
              \/ ProcessMovement

SpecCombat == InitCombat /\ [][NextCombat]_vars

(***************************************************************************)
(* The match: run_game and the phases of process_next_frame around the     *)
(* sub-step.  The statistics of the match (response times, frame counts,   *)
(* ship counts of the last frame), the replay and the networking are not   *)
(* part of the state.                                                      *)
(***************************************************************************)
\* The players of S by player id
InOrder(S) == SelectSeq([k \in 1 .. NumPlayers |-> k - 1], LAMBDA p : p \in S)

\* The map w becomes the map of the program.
StoreMap(w) == ships' = w.sh /\ planets' = w.pl

\* The start of run_game (lines 921-946): a player that does not answer the
\* initial package in time is killed and ranked last.
StartGame ==
    /\ pc = "init"
    /\ \E timed_out \in SUBSET Players :
         /\ Cardinality(timed_out) <= timeouts_left
         /\ StoreMap(KillPlayers(World, 0, timed_out))
         /\ living_players' = [p \in Players |-> p \notin timed_out]
         /\ rankings' = InOrder(timed_out)
         /\ timeouts_left' = timeouts_left - Cardinality(timed_out)
    /\ pc' = "check"
    /\ UNCHANGED <<frame_events, damage_dealt, total_ship_count, next_index, pending,
                   batch_times, turn_number, move_no, player_moves, commands_left,
                   crashed, ndebug, last_batch, probe, result>>

\* max_turn_number of run_game (line 952)
max_turn_number == 100 + FloorSqrt(map_width * map_height)

\* A game_complete that looks at the turn number only
game_complete_turns_only == turn_number >= Min(max_turn_number, MaxTurns)

\* game_complete of run_game (lines 954-959); the matches explored stop at
\* MaxTurns when it is below max_turn_number.
game_complete ==
    LET num_living_players == Cardinality({p \in Players : living_players[p]})
    IN  \/ turn_number >= Min(max_turn_number, MaxTurns)
        \/ (num_living_players <= 1 /\ NumPlayers > 1)
        \/ (num_living_players = 0 /\ NumPlayers = 1)

\* The commands a controller can send for a ship
Commands ==
    {Thrust(MAX_SPEED, d[1], d[2]) : d \in {<<1, 0>>, <<0 - 1, 0>>, <<0, 1>>, <<0, 0 - 1>>}}
    \cup {Dock(j) : j \in PlanetIdx} \cup {Undock}

\* The head of the loop of run_game and process_next_frame up to retrieve_moves
\* (lines 964-968, 721-729, 174-212): the controllers of the living players
\* send their moves, and those that time out are killed.
RetrieveMoves ==
    /\ pc = "check"
    /\ ~game_complete
    /\ turn_number' = turn_number + 1
    /\ frame_events' = << >>
    /\ \E timed_out \in SUBSET {p \in Players : living_players[p]} :
         /\ Cardinality(timed_out) <= timeouts_left
         /\ StoreMap(KillPlayers(World, 0, timed_out))
         /\ timeouts_left' = timeouts_left - Cardinality(timed_out)
         /\ \E S \in SUBSET {id \in ShipIds : /\ ships[id].inmap
                                              /\ living_players[player_id(id)]
                                              /\ player_id(id) \notin timed_out} :
              /\ Cardinality(S) <= commands_left
              /\ commands_left' = commands_left - Cardinality(S)
              /\ \E cmds \in [S -> Commands] :
                   player_moves' =
                      [m \in 0 .. (MAX_QUEUED_MOVES - 1) |->
                         [id \in ShipIds |->
                            IF m = 0 /\ id \in S THEN cmds[id] ELSE Noop]]
    /\ move_no' = 0
    /\ pc' = "docking"
    /\ UNCHANGED <<damage_dealt, total_ship_count, next_index, pending, batch_times,
                   living_players, rankings, crashed, ndebug, last_batch, probe, result>>

ProcessDocking ==
    /\ pc = "docking"
    /\ StoreMap(process_docking(World, 1))
    /\ pc' = "moves"
    /\ UNCHANGED <<frame_events, damage_dealt, total_ship_count, next_index, pending,
                   batch_times, turn_number, living_players, rankings, move_no,
                   player_moves, commands_left, timeouts_left, crashed, ndebug,
                   last_batch, probe, result>>

ProcessMoves ==
    /\ pc = "moves"
    /\ StoreMap(process_moves(World, living_players, player_moves[move_no], 1))
    /\ pc' = "events"
    /\ UNCHANGED <<frame_events, damage_dealt, total_ship_count, next_index, pending,
                   batch_times, turn_number, living_players, rankings, move_no,
                   player_moves, commands_left, timeouts_left, crashed, ndebug,
                   last_batch, probe, result>>

\* The world of process_production
ProductionWorld ==
    [sh |-> ships, pl |-> planets, ev |-> frame_events, count |-> total_ship_count,
     next |-> next_index, full |-> FALSE]

StoreProduction(w) ==
    /\ ~w.full
    /\ ships' = w.sh
    /\ planets' = w.pl
    /\ frame_events' = w.ev
    /\ total_ship_count' = w.count
    /\ next_index' = w.next

ProcessProduction ==
    /\ pc = "production"
    /\ StoreProduction(process_production(ProductionWorld, 0))
    /\ pc' = "drag"
    /\ UNCHANGED <<damage_dealt, pending, batch_times, turn_number, living_players,
                   rankings, move_no, player_moves, commands_left, timeouts_left,
                   crashed, ndebug, last_batch, probe, result>>

ProcessDrag ==
    /\ pc = "drag"
    /\ ships' = process_drag(ships)
    /\ pc' = "cooldowns"
    /\ UNCHANGED <<planets, frame_events, damage_dealt, total_ship_count, next_index,
                   pending, batch_times, turn_number, living_players, rankings,
                   move_no, player_moves, commands_left, timeouts_left, crashed,
                   ndebug, last_batch, probe, result>>

ProcessCooldowns ==
    /\ pc = "cooldowns"
    /\ ships' = process_cooldowns(ships)
    /\ pc' = "frame_end"
    /\ UNCHANGED <<planets, frame_events, damage_dealt, total_ship_count, next_index,
                   pending, batch_times, turn_number, living_players, rankings,
                   move_no, player_moves, commands_left, timeouts_left, crashed,
                   ndebug, last_batch, probe, result>>

\* Lines 970-981 for the result new_living_players of process_next_frame.
RankDead(new_living_players) ==
    /\ rankings' = rankings \o SortRanking({p \in Players : /\ living_players[p]
                                                           /\ ~new_living_players[p]},
                                           total_ship_count, damage_dealt)
    /\ living_players' = new_living_players

\* The end of process_next_frame (find_living_players) and of the body of the
\* loop of run_game.
EndFrame ==
    /\ pc = "frame_end"
    /\ RankDead(find_living_players(World))
    /\ pc' = "check"
    /\ UNCHANGED <<ships, planets, frame_events, damage_dealt, total_ship_count,
                   next_index, pending, batch_times, turn_number, move_no,
                   player_moves, commands_left, timeouts_left, crashed, ndebug,
                   last_batch, probe, result>>

\* The end of run_game (lines 985-995): the players still alive are ranked and
\* the ranking is reversed.
FinishGame ==
    /\ pc = "check"
    /\ game_complete
    /\ rankings' = Reverse(rankings \o SortRanking({p \in Players : living_players[p]},
                                                   total_ship_count, damage_dealt))
    /\ pc' = "done"
    /\ UNCHANGED <<ships, planets, frame_events, damage_dealt, total_ship_count,
                   next_index, pending, batch_times, turn_number, living_players,
                   move_no, player_moves, commands_left, timeouts_left, crashed,
                   ndebug, last_batch, probe, result>>

(***************************************************************************)
(* Worlds at the start of a match.  Planet 0 has two docking spots, planet *)
(* 1 has one and lies within the explosion of planet 0.  Ship 0 of fleet 0 *)
(* is near planet 0, in any docking status; ship 0 of fleet 1 is within    *)
(* docking range of both planets; fleet 0 may have a ship of health a1[1]  *)
(* docked at planet 1, within weapon range of the ship of fleet 1, whose   *)
(* weapon_cooldown is a1[2].  Without that ship, planet 0 is one unit of   *)
(* production short of a new ship.                                         *)
(***************************************************************************)
GameWorlds ==
    {[sh |-> Fleet(IF st[1] = "Undocked" THEN Ship(4, 1, 0, 0, MAX_SHIP_HEALTH, 0)
                   ELSE DockedShip(4, 1, MAX_SHIP_HEALTH, st[1], 0, st[2]),
                   IF a1[1] > 0 THEN DockedShip(10, 1, a1[1], "Docked", 1, 0) ELSE NoShip,
                   Ship(9, 6, 0, 0, MAX_SHIP_HEALTH, a1[2]),
                   NoShip),
      pl |-> Planets([Planet(6, 4, 2, h0, st[1] # "Undocked", 0,
                             IF st[1] # "Undocked" THEN {0} ELSE {}, 2, 6)
                         EXCEPT !.current_production =
                                    IF a1[1] = 0 THEN PRODUCTION_PER_SHIP - 1 ELSE 0],
                     Planet(10, 4, 1, 2, a1[1] > 0, 0, IF a1[1] > 0 THEN {1} ELSE {}, 1, 6))] :
        st \in {<<"Undocked", 0>>, <<"Docking", DOCK_TURNS>>, <<"Docked", 0>>,
                <<"Undocking", 1>>},
        a1 \in {<<0, 0>>, <<2, 0>>, <<MAX_SHIP_HEALTH, 1>>}, h0 \in {3, 9}}

\* The start of a match on one of worlds, whose controllers send at most
\* commands commands.
InitMatch(worlds, commands) ==
    /\ \E gw \in worlds : ships = gw.sh /\ planets = gw.pl
    /\ next_index = [p \in Players |->
                       Cardinality({id \in ShipIds : player_id(id) = p /\ ships[id].inmap})]
    /\ frame_events = << >>
    /\ damage_dealt = [p \in Players |-> 0]
    /\ total_ship_count = [p \in Players |-> 0]
    /\ pending = {}
    /\ batch_times = << >>
    /\ pc = "init"
    /\ turn_number = 0
    /\ living_players = [p \in Players |-> TRUE]
    /\ rankings = << >>
    /\ move_no = 0
    /\ player_moves = NoMoves
    /\ commands_left = commands
    /\ timeouts_left = MaxTimeouts
    /\ crashed = "no"
    /\ ndebug \in BOOLEAN
    /\ last_batch = NoBatch
    /\ probe = NoProbe
    /\ result = NoProbe

Init == InitMatch(GameWorlds, MaxCommands)

Next ==
    \/ StartGame
    \/ RetrieveMoves
    \/ ProcessDocking
    \/ ProcessMoves
    \/ DetectEvents
    \/ DetectEventsFails
    \/ ResolveBatchStep
    \/ SkipBatch
    \/ ProcessMovement
    \/ ProcessProduction
    \/ ProcessDrag
    \/ ProcessCooldowns
    \/ EndFrame
    \/ FinishGame

Spec == Init /\ [][Next]_vars

\* Matches that start with both ships undocked, with one more command.
MaxDockCommands == 3

UndockedWorlds == {gw \in GameWorlds : gw.sh[ShipId(0, 0)].docking_status = "Undocked"}

InitDocking == InitMatch(UndockedWorlds, MaxDockCommands)

SpecDocking == InitDocking /\ [][Next]_vars

\* Matches in which a ship of fleet 0 rests within docking range of both
\* planets while the other ship of its fleet is docking or docked at planet 1,
\* which has one or two docking spots; the ship of fleet 1 is within docking
\* range of planet 0.
BerthWorlds ==
    {[sh |-> Fleet(Ship(9, 6, 0, 0, MAX_SHIP_HEALTH, 0),
                   DockedShip(10, 1, MAX_SHIP_HEALTH, st[1], 1, st[2]),
                   Ship(4, 1, 0, 0, MAX_SHIP_HEALTH, 0),
                   NoShip),
      pl |-> Planets(Planet(6, 4, 2, 9, FALSE, 0, {}, 2, 6),
                     Planet(10, 4, 1, h1, TRUE, 0, {1}, spots, 6))] :
        st \in {<<"Docking", 1>>, <<"Docked", 0>>}, spots \in {1, 2}, h1 \in {2}}

InitBerth == InitMatch(BerthWorlds, MaxDockCommands)

SpecBerth == InitBerth /\ [][Next]_vars

\* Matches that start with ship 0 of fleet 0 just accepted for docking or in
\* the last turn of its undocking.
MooringWorlds ==
    {gw \in GameWorlds : gw.sh[ShipId(0, 0)].docking_status \in {"Docking", "Undocking"}}

InitMooring == InitMatch(MooringWorlds, MaxCommands)

SpecMooring == InitMooring /\ [][Next]_vars

\* Matches without planets: two ships of fleet 0 at rest in a row with a ship
\* of fleet 1, the nearer one within weapon range of it and the other not.
SkirmishWorlds ==
    {[sh |-> Fleet(Ship(0, 4, 0, 0, ha, 0), Ship(3, 4, 0, 0, MAX_SHIP_HEALTH, c[1]),
                   Ship(7, 4, 0, 0, MAX_SHIP_HEALTH, c[2]), NoShip),
      pl |-> Planets(DeadPlanet, DeadPlanet)] :
        ha \in {2, MAX_SHIP_HEALTH}, c \in [1 .. 2 -> 0 .. WEAPON_COOLDOWN]}

InitSkirmish == InitMatch(SkirmishWorlds, MaxCommands)

SpecSkirmish == InitSkirmish /\ [][Next]_vars

\* Matches of three fleets around the last planet alive, which is unowned and
\* has health hp.  Ship 0 of fleet 0 is three units short of its surface and
\* the other ships are out of reach of its explosion.
LeagueWorlds ==
    {[sh |-> [Fleet(Ship(1, 4, 0, 0, MAX_SHIP_HEALTH, 0), NoShip,
                    Ship(10, 1, 0, 0, MAX_SHIP_HEALTH, 0), NoShip)
                 EXCEPT ![ShipId(2, 0)] = Ship(10, 6, 0, 0, MAX_SHIP_HEALTH, c)],
      pl |-> Planets(Planet(6, 4, 2, hp, FALSE, 0, {}, 2, 6), DeadPlanet)] :
        hp \in {MAX_SHIP_HEALTH, 9}, c \in 0 .. WEAPON_COOLDOWN}

InitLeague == InitMatch(LeagueWorlds, MaxCommands)

SpecLeague == InitLeague /\ [][Next]_vars

(***************************************************************************)
(* Functions applied on their own.  The match is idle: probe holds the     *)
(* arguments and result what the function returned.                        *)
(***************************************************************************)
MaxDistSq == 49

\* The variables of the match hold an empty map and nothing runs.
Idle ==
    /\ ships = NoShips
    /\ planets = [j \in PlanetIdx |-> DeadPlanet]
    /\ frame_events = << >>
    /\ damage_dealt = [p \in Players |-> 0]
    /\ total_ship_count = [p \in Players |-> 0]
    /\ next_index = [p \in Players |-> 0]
    /\ pending = {}
    /\ batch_times = << >>
    /\ pc = "probe"
    /\ turn_number = 0
    /\ living_players = [p \in Players |-> TRUE]
    /\ rankings = << >>
    /\ move_no = 0
    /\ player_moves = NoMoves
    /\ commands_left = 0
    /\ timeouts_left = 0
    /\ crashed = "no"
    /\ ndebug = FALSE
    /\ last_batch = NoBatch

match_vars == <<ships, planets, frame_events, damage_dealt, total_ship_count, next_index,
                pending, batch_times, pc, turn_number, living_players, rankings, move_no,
                player_moves, commands_left, timeouts_left, crashed, ndebug, last_batch>>

\* A planet of the given radius explodes; two targets of radius target_radius
\* have their centers at squared distances d2a <= d2b of its center.
ExplosionProbes ==
    {[kind |-> "explosion", radius |-> r, target_radius |-> tr, d2a |-> a, d2b |-> b] :
        r \in 1 .. 2, tr \in 1 .. 2, a \in 0 .. MaxDistSq, b \in 0 .. MaxDistSq}

InitExplosion ==
    /\ Idle
    /\ probe \in {q \in ExplosionProbes : q.d2a <= q.d2b}
    /\ result = NoProbe

\* planet_explosion_damage as kill_entity calls it (lines 138-142), for both targets
ApplyExplosion ==
    /\ probe.kind = "explosion"
    /\ result = NoProbe
    /\ result' = [kind |-> "explosion",
                  a |-> planet_explosion_damage(Planet(0, 0, probe.radius, 1, FALSE, 0, {}, 0, 0),
                                                probe.d2a, probe.target_radius),
                  b |-> planet_explosion_damage(Planet(0, 0, probe.radius, 1, FALSE, 0, {}, 0, 0),
                                                probe.d2b, probe.target_radius)]
    /\ UNCHANGED <<match_vars, probe>>

SpecExplosion == InitExplosion /\ [][ApplyExplosion]_vars

\* Where a ship is at the end of a turn: not in the map, undocked, or docking
\* or docked at planet 0 or 1.
Berths ==
    {<<"None", 0>>, <<"Undocked", 0>>}
    \cup {<<st, j>> : st \in {"Docking", "Docked"}, j \in {0, 1}}

BerthShip(x, y, b) ==
    IF b[1] = "None" THEN NoShip
    ELSE IF b[1] = "Undocked" THEN Ship(x, y, 0, 0, MAX_SHIP_HEALTH, 0)
    ELSE DockedShip(x, y, MAX_SHIP_HEALTH, b[1], b[2], IF b[1] = "Docking" THEN 1 ELSE 0)

AtBerth(b, j) == b[1] \in {"Docking", "Docked"} /\ b[2] = j

\* Planet j of a map where the first ships of fleets 0 and 1 are at a0 and b0
BerthPlanet(j, x, y, radius, alive, a0, b0) ==
    Planet(x, y, radius, IF alive THEN 5 ELSE 0, AtBerth(a0, j) \/ AtBerth(b0, j),
           IF AtBerth(b0, j) THEN 1 ELSE 0,
           IF AtBerth(a0, j) \/ AtBerth(b0, j) THEN {0} ELSE {}, 1, 6)

\* The map where the ships are at a0, a1 and b0 and al tells the planets alive
LivingProbe(a0, a1, b0, al) ==
    [kind |-> "living",
     sh |-> Fleet(BerthShip(9, 2, a0), BerthShip(2, 6, a1), BerthShip(9, 6, b0), NoShip),
     pl |-> Planets(BerthPlanet(0, 6, 4, 2, al[1], a0, b0),
                    BerthPlanet(1, 10, 4, 1, al[2], a0, b0))]

\* Maps at the end of a turn: each planet alive or dead, a planet with a
\* docking or docked ship being alive and owned by the fleet of that ship.
LivingProbes ==
    {LivingProbe(t[1], t[2], t[3], t[4]) :
        t \in {t \in Berths \X {<<"None", 0>>, <<"Undocked", 0>>} \X Berths
                        \X (BOOLEAN \X BOOLEAN) :
                  \A j \in {0, 1} :
                     /\ ~(AtBerth(t[1], j) /\ AtBerth(t[3], j))
                     /\ AtBerth(t[1], j) \/ AtBerth(t[3], j) => t[4][j + 1]}}

InitLiving ==
    /\ Idle
    /\ probe \in LivingProbes
    /\ result = NoProbe

\* find_living_players as process_next_frame calls it (line 748)
ApplyLiving ==
    /\ probe.kind = "living"
    /\ result = NoProbe
    /\ result' = [kind |-> "living", still_alive |-> find_living_players(probe)]
    /\ UNCHANGED <<match_vars, probe>>

SpecLiving == InitLiving /\ [][ApplyLiving]_vars

\* Maps in which planet 0 is about to be destroyed: planet 0 at (6, 4) with
\* radius 2, owned by fleet 1 whose ship b is docking or docked there, a, the
\* ship of fleet 0 or NoShip, and p1 as planet 1.
KillProbe(a, b, h0, p1) ==
    [kind |-> "kill",
     sh |-> Fleet(a, NoShip, b, NoShip),
     pl |-> Planets(Planet(6, 4, 2, h0, TRUE, 1, {0}, 2, 6), p1),
     ev |-> << >>,
     dealt |-> [p \in Players |-> 0],
     overflow |-> FALSE]

\* The ship of fleet 0 is absent or at rest at 1, 2 or 3 from the surface of
\* planet 0; the ship of fleet 1 touches the surface or is at 1 from it;
\* planet 1 is dead or within the explosion of planet 0.
KillProbes ==
    {KillProbe(a, b, h0, p1) :
        a \in {NoShip} \cup {Ship(xa, 4, 0, 0, ha, 0) : xa \in 0 .. 2, ha \in {2, 4}},
        b \in {DockedShip(6, yb, hb, st, 0, IF st = "Docking" THEN 1 ELSE 0) :
                  yb \in {0, 1}, hb \in {3, 4}, st \in {"Docking", "Docked"}},
        h0 \in {3, 9},
        p1 \in {DeadPlanet} \cup {Planet(10, 4, 1, h1, FALSE, 0, {}, 1, 6) : h1 \in {2, 9}}}

InitKill ==
    /\ Idle
    /\ probe \in KillProbes
    /\ result = NoProbe

\* kill_entity as damage_entity calls it (line 87) for planet 0, at time 0
ApplyKill ==
    /\ probe.kind = "kill"
    /\ result = NoProbe
    /\ result' = [kind |-> "kill", w |-> kill_entity(probe, PlanetId(0), 0, {})]
    /\ UNCHANGED <<match_vars, probe>>

SpecKill == InitKill /\ [][ApplyKill]_vars

\* A dock request on its own.  The ship that asks is ship 0 of fleet 1, near
\* planet 0 or too far from it, at rest or moving, undocked or docked at
\* planet 1; planet 0 is dead or alive, with one or two docking spots, and is
\* free, frozen, held by fleet 1 or held by fleet 0, whose ship has begun to
\* dock in this turn or is docked.  The request names planet 0, planet 1 or
\* an index past the last planet.
DockHolders ==
    {[owned |-> FALSE, owner |-> 0, docked |-> {}, frozen |-> FALSE, a |-> NoShip, b |-> NoShip],
     [owned |-> FALSE, owner |-> 0, docked |-> {}, frozen |-> TRUE, a |-> NoShip, b |-> NoShip]}
    \cup {[owned |-> TRUE, owner |-> 1, docked |-> {1}, frozen |-> FALSE, a |-> NoShip,
           b |-> DockedShip(6, 1, 4, st, 0, IF st = "Docking" THEN 1 ELSE 0)] :
             st \in {"Docking", "Docked"}}
    \cup {[owned |-> TRUE, owner |-> 0, docked |-> {0}, frozen |-> FALSE,
           a |-> DockedShip(9, 4, 4, st, 0, IF st = "Docking" THEN DOCK_TURNS ELSE 0),
           b |-> NoShip] :
             st \in {"Docking", "Docked"}}

DockProbe(r, hold, h0, spots, to) ==
    [kind |-> "dock",
     sh |-> Fleet(hold.a, NoShip, r, hold.b),
     pl |-> Planets([Planet(6, 4, 2, h0, hold.owned, hold.owner, hold.docked, spots, 6)
                        EXCEPT !.frozen = hold.frozen],
                    IF r.docking_status = "Undocked"
                    THEN Planet(2, 1, 1, 5, FALSE, 0, {}, 1, 6)
                    ELSE Planet(2, 1, 1, 5, TRUE, 1, {0}, 1, 6)),
     ev |-> << >>,
     dealt |-> [p \in Players |-> 0],
     overflow |-> FALSE,
     id |-> ShipId(1, 0),
     to |-> to]

DockProbes ==
    {DockProbe(r, hold, h0, spots, to) :
        r \in {Ship(xr, 4, vx, 0, 4, 0) : xr \in {0, 2}, vx \in {0, 1}}
               \cup {DockedShip(2, 4, 4, "Docked", 1, 0)},
        hold \in DockHolders,
        h0 \in {0, 5},
        spots \in {1, 2},
        to \in 0 .. NumPlanets}

InitDock ==
    /\ Idle
    /\ probe \in DockProbes
    /\ result = NoProbe

\* The Dock case of process_moves for the ship and the target of the probe
ApplyDock ==
    /\ probe.kind = "dock"
    /\ result = NoProbe
    /\ result' = [kind |-> "dock", w |-> ApplyMove(probe, probe.id, Dock(probe.to))]
    /\ UNCHANGED <<match_vars, probe>>

SpecDock == InitDock /\ [][ApplyDock]_vars

\* collision_time on its own, for a body at an offset of at most MaxOffset on
\* each axis from a body at the origin, a relative velocity of at most
\* MaxRelSpeed on each axis and a combined radius of at most MaxRadius.
MaxOffset == 3

MaxRelSpeed == 3

MaxRadius == 2

TimeProbes ==
    {[kind |-> "time", r |-> r, x |-> d[1], y |-> d[2], vx |-> v[1], vy |-> v[2]] :
        r \in 1 .. MaxRadius,
        d \in (0 - MaxOffset .. MaxOffset) \X (0 - MaxOffset .. MaxOffset),
        v \in (0 - MaxRelSpeed .. MaxRelSpeed) \X (0 - MaxRelSpeed .. MaxRelSpeed)}

InitTime ==
    /\ Idle
    /\ probe \in TimeProbes
    /\ result = NoProbe

\* collision_time and the test of its result by find_events (lines 215-217)
ApplyCollisionTime ==
    /\ probe.kind = "time"
    /\ result = NoProbe
    /\ LET t == collision_time(probe.r, probe.x, probe.y, 0, 0, probe.vx, probe.vy, 0, 0)
       IN  result' = [kind |-> "time", t |-> t,
                      event |-> t.ok /\ TimeGE0(t) /\ TimeLE1(t)]
    /\ UNCHANGED <<match_vars, probe>>

SpecTime == InitTime /\ [][ApplyCollisionTime]_vars

\* CollisionMap::test on its own, for every position of the map and a query
\* radius of at most MaxRadius.
GridProbes ==
    {[kind |-> "test", x |-> x, y |-> y, r |-> r] :
        x \in 0 .. (map_width - 1), y \in 0 .. (map_height - 1), r \in 1 .. MaxRadius}

InitGrid ==
    /\ Idle
    /\ probe \in GridProbes
    /\ result = NoProbe

\* The cells CollisionMap::test reads (lines 48-97) in the grid built by the
\* constructor (lines 22-29)
ApplyTest ==
    /\ probe.kind = "test"
    /\ result = NoProbe
    /\ result' = [kind |-> "test", cells |-> TestCells(probe.x, probe.y, probe.r),
                  throws |-> TestThrows(probe.x, probe.y, probe.r)]
    /\ UNCHANGED <<match_vars, probe>>

SpecGrid == InitGrid /\ [][ApplyTest]_vars

\* process_production on its own.  Planet 1 is held by fleet 0, whose ship 0 is
\* docking or docked there, above or below the planet; planet 0, in the middle
\* of the map, is dead or alive and held by the docked ship of fleet 1 or by
\* nobody.  The locations where planet 1 can spawn are the center of planet 0
\* and the location above planet 1.
ProduceProbe(a, b, p0, rp, cp) ==
    [kind |-> "produce",
     sh |-> Fleet(a, NoShip, b, NoShip),
     pl |-> Planets(p0,
                    [Planet(10, 4, 1, 5, TRUE, 0, {0}, 1, rp) EXCEPT !.current_production = cp]),
     ev |-> << >>,
     count |-> [p \in Players |-> 0],
     next |-> [p \in Players |-> 1],
     full |-> FALSE]

ProduceProbes ==
    {ProduceProbe(a, b, p0, rp, cp) :
        a \in {DockedShip(10, ya, MAX_SHIP_HEALTH, st, 1, IF st = "Docking" THEN 1 ELSE 0) :
                  ya \in {1, 6}, st \in {"Docking", "Docked"}},
        b \in {DockedShip(3, 4, MAX_SHIP_HEALTH, "Docked", 0, 0)},
        p0 \in {Planet(6, 4, 2, h0, ow, 1, IF ow THEN {0} ELSE {}, 2, 6) :
                   h0 \in {0, 9}, ow \in BOOLEAN},
        rp \in {0, 1, 6},
        cp \in 0 .. PRODUCTION_PER_SHIP}

InitProduce ==
    /\ Idle
    /\ probe \in ProduceProbes
    /\ result = NoProbe

\* process_production (lines 250-316) on the world of the probe
ApplyProduction ==
    /\ probe.kind = "produce"
    /\ result = NoProbe
    /\ ~process_production(probe, 0).full
    /\ result' = [kind |-> "produce", w |-> process_production(probe, 0)]
    /\ UNCHANGED <<match_vars, probe>>

SpecProduce == InitProduce /\ [][ApplyProduction]_vars

(***************************************************************************)
(* Properties of the sub-step.                                             *)
(***************************************************************************)
Entities == ShipIds \cup PlanetIds

Range(seq) == {seq[i] : i \in DOMAIN seq}

\* The events that w2 records beyond those of w
NewEvents(w, w2) == {w2.ev[i] : i \in (Len(w.ev) + 1) .. Len(w2.ev)}

\* A batch was resolved by the latest iteration and the program goes on.
AfterBatch == pc = "batches" /\ last_batch.evs # << >>

\* The state of the resolution of the latest batch after its two loops
LastLoops == BatchLoops(last_batch.w, last_batch.evs)

DamageSamples == (0 .. (MAX_SHIP_HEALTH + 1)) \cup {USHORT_MAX}

\* damage_entity destroys at damage >= health and else subtracts the damage
DamageEntityContract(w, id, damage) ==
    LET w2 == damage_entity(w, id, damage, 0, {})
    IN  \/ w2.overflow
        \/ IF damage >= EntityHealth(w, id)
           THEN /\ EntityHealth(w2, id) = 0
                /\ DestroyedEvent(id, 0) \in NewEvents(w, w2)
           ELSE /\ EntityHealth(w2, id) = EntityHealth(w, id) - damage
                /\ w2.ev = w.ev

\* C1: health is never negative and no entity of the map has health 0; 
\* damage_entity with damage >= health destroys the entity and otherwise
\* subtracts exactly the damage; an entity destroyed during a batch is recorded
\* as destroyed and is out of the ships of the map and of the docked sets before
\* the next batch.
C1_HealthAndPurge ==
    pc # "crashed" =>
      /\ \A id \in ShipIds : ships[id].inmap => ships[id].health > 0
      /\ \A j \in PlanetIdx : planets[j].health >= 0
      /\ \A j \in PlanetIdx : planets[j].health > 0 =>
            \A i \in planets[j].docked_ships : ships[ShipId(planets[j].owner, i)].inmap
      /\ \A id \in Entities : is_valid(World, id) =>
            \A damage \in DamageSamples : DamageEntityContract(World, id, damage)
      /\ AfterBatch =>
            \A id \in Entities :
               is_valid(last_batch.w, id) /\ ~is_valid(World, id) =>
                  \E e \in NewEvents(last_batch.w, World) :
                     e.kind = "Destroyed" /\ e.id = id

\* A batch destroyed one ship, which left the map, and damaged another that lives.
C1_Witness ==
    /\ AfterBatch
    /\ \E id \in ShipIds : last_batch.w.sh[id].inmap /\ ~ships[id].inmap
    /\ \E id \in ShipIds : ships[id].inmap /\ ships[id].health < last_batch.w.sh[id].health

\* C3: no event of a batch is resolved against a participant that an earlier
\* event of the same batch destroyed.
C3_NoDeadParticipant == last_batch.evs # << >> => ~LastLoops.used_dead

\* C4: the batches of a sub-step have strictly increasing times; a batch is
\* every event left with the least time; the events resolved are those popped
\* whose participants are still in the map; a batch emptied by that is skipped
\* with no effect.
C4_BatchOrder ==
    /\ \A i \in 1 .. (Len(batch_times) - 1) : batch_times[i] < batch_times[i + 1]
    /\ pc = "batches" /\ batch_times # << >> =>
         /\ last_batch.popped # {}
         /\ \A e \in last_batch.popped : e.time = batch_times[Len(batch_times)]
         /\ \A e \in pending : e.time > batch_times[Len(batch_times)]
         /\ Range(last_batch.evs) =
               {e \in last_batch.popped :
                   is_valid(last_batch.w, e.id1) /\ is_valid(last_batch.w, e.id2)}
         /\ last_batch.evs = << >> => World = last_batch.w

\* A second or later batch was skipped: all its events were of entities destroyed before.
C4_Witness ==
    /\ pc = "batches"
    /\ Len(batch_times) >= 2
    /\ last_batch.popped # {}
    /\ last_batch.evs = << >>

\* C5: the result of a batch is the same for every order in which its events
\* are enumerated.
C5_OrderIndependent ==
    AfterBatch =>
      \A evs \in Orders(Range(last_batch.evs)) :
         LET w == ResolveBatch(last_batch.w, evs, last_batch.inf_cast)
         IN  w.sh = ships /\ w.pl = planets /\ w.dealt = damage_dealt

\* C6: an eligible attacker that lives through the batch and engages k targets
\* contributes WEAPON_DAMAGE / k to each of them.
C6_EvenSplit ==
    last_batch.evs # << >> =>
      \A src \in ShipIds :
         /\ last_batch.w.sh[src].inmap
         /\ CanAttack(last_batch.w.sh[src])
         /\ IsAlive(LastLoops.w, src)
         => \A target \in Range(LastLoops.attackers[src]) :
               \E c \in Range(LastLoops.contrib) :
                  /\ c.src = src
                  /\ c.target = target
                  /\ c.amount * LastLoops.target_count[src] = WEAPON_DAMAGE * DamageDenom

\* The contributions of the latest batch to target, and their sum
ContribTo(target) == {k \in DOMAIN LastLoops.contrib : LastLoops.contrib[k].target = target}

RECURSIVE SumContrib(_)
SumContrib(ks) ==
    IF ks = {} THEN 0
    ELSE LET k == CHOOSE k \in ks : TRUE
         IN  LastLoops.contrib[k].amount + SumContrib(ks \ {k})

\* C7: the attack damage of a batch is applied to each target once, after both
\* loops over the batch, as the sum of its contributions truncated to an integer.
C7_AccumulatedOnce ==
    AfterBatch =>
      \A target \in ShipIds :
         LET before == LastLoops.w.sh[target]
             total == SumContrib(ContribTo(target)) \div DamageDenom
         IN  before.inmap /\ before.health > 0 /\ target \notin LastLoops.infinite =>
               IF total >= before.health /\ ContribTo(target) # {}
               THEN ~ships[target].inmap
               ELSE /\ ships[target].inmap
                    /\ ships[target].health = before.health - total

\* A ship that two attackers damaged in one batch lost the truncated sum and lives.
C7_Witness ==
    /\ AfterBatch
    /\ \E target \in ShipIds :
          /\ Cardinality({LastLoops.contrib[k].src : k \in ContribTo(target)}) >= 2
          /\ (SumContrib(ContribTo(target)) % DamageDenom) = 0
          /\ \E k \in ContribTo(target) : (LastLoops.contrib[k].amount % DamageDenom) # 0
          /\ ships[target].inmap
          /\ ships[target].health =
                LastLoops.w.sh[target].health - SumContrib(ContribTo(target)) \div DamageDenom

\* The ship-ship collisions of the latest batch
ShipCollisions ==
    {e \in Range(last_batch.evs) :
        e.type = "Collision" /\ IsShipId(e.id1) /\ IsShipId(e.id2)}

\* C8 as amended: in a collision of two ships each ship takes its own current
\* health as damage, so both are destroyed whatever their healths.
C8_BothDestroyed ==
    AfterBatch =>
      \A e \in ShipCollisions :
         /\ compute_damage(last_batch.w, e.id1, e.id2) =
               <<last_batch.w.sh[e.id1].health, last_batch.w.sh[e.id2].health>>
         /\ ~ships[e.id1].inmap
         /\ ~ships[e.id2].inmap

\* Two ships of different health collided in a batch of that one event; both are gone.
C8_Witness ==
    /\ AfterBatch
    /\ Len(last_batch.evs) = 1
    /\ \E e \in ShipCollisions :
          /\ last_batch.w.sh[e.id1].health # last_batch.w.sh[e.id2].health
          /\ ~ships[e.id1].inmap
          /\ ~ships[e.id2].inmap

\* C8 as stated: each ship takes the health of the other, so the ship with
\* strictly greater health survives with the difference.
C8_HealthierSurvives ==
    AfterBatch /\ Len(last_batch.evs) = 1 =>
      \A e \in ShipCollisions :
         \A a, b \in {e.id1, e.id2} :
            last_batch.w.sh[a].health > last_batch.w.sh[b].health =>
               /\ ships[a].inmap
               /\ ships[a].health = last_batch.w.sh[a].health - last_batch.w.sh[b].health

\* The times (as pairs numerator, denominator) at which the trajectory of ship
\* crosses an edge of the world, and the earliest of them rounded as event times are
EdgeTimes(ship) ==
    (IF ship.vx < 0 THEN {<<ship.x, 0 - ship.vx>>} ELSE {})
    \cup (IF ship.vx > 0 THEN {<<map_width - ship.x, ship.vx>>} ELSE {})
    \cup (IF ship.vy < 0 THEN {<<ship.y, 0 - ship.vy>>} ELSE {})
    \cup (IF ship.vy > 0 THEN {<<map_height - ship.y, ship.vy>>} ELSE {})

EarliestEdgeTime(ship) ==
    LET t == CHOOSE t \in EdgeTimes(ship) :
                \A u \in EdgeTimes(ship) : t[1] * u[2] <= u[1] * t[2]
    IN  round_event_time(Root(t[1], 0, 0, t[2]))

\* C9: a ship whose extrapolated position is outside the world gets a Desertion
\* event at the earliest time its trajectory crosses an edge, whatever the sign
\* of its velocity, and is destroyed by the end of the sub-step.
C9_DesertionRegistered ==
    /\ pc = "crashed" /\ crashed = "assert" =>
          \A id \in ShipIds : ships[id].inmap => ~desertion_assert_fails(ships[id])
    /\ pc = "batches" /\ batch_times = << >> =>
          \A id \in ShipIds :
             ships[id].inmap /\ Deserts(ships[id]) =>
                Event("Desertion", id, id, EarliestEdgeTime(ships[id])) \in pending
    /\ pc = "production" =>
          \A id \in ShipIds : ships[id].inmap => within_bounds(ships[id].x, ships[id].y)

\* C10: every event of the event set has a time in [0, 1], and the assertion on
\* the desertion time holds.
C10_TimesInRange ==
    /\ \A e \in pending : 0 <= e.time /\ e.time <= EVENT_TIME_PRECISION
    /\ pc = "crashed" /\ crashed = "assert" =>
          \A id \in ShipIds : ships[id].inmap => ~desertion_assert_fails(ships[id])

(***************************************************************************)
(* Properties of the match.                                                *)
(***************************************************************************)
\* The unit id is alive, not Undocked, and its docked_planet is planet n.
ClaimsSlot(id, n) ==
    /\ IsAlive(World, id)
    /\ ships[id].docking_status # "Undocked"
    /\ ships[id].docked_planet = n

\* The live planet n is owned by the fleet of unit id and lists its slot index.
ListsSlot(id, n) ==
    /\ planets[n].health > 0
    /\ planets[n].owned
    /\ planets[n].owner = player_id(id)
    /\ entity_index(id) \in planets[n].docked_ships

\* C2: in every state of a match (after dock and undock commands, contention
\* reverts, the destruction of units and of planets, the completion of an
\* undocking and the forced removal of a fleet), a live unit is docking, docked
\* or undocking with docked_planet = n if and only if the live planet n is owned
\* by the fleet of the unit and lists the slot index of the unit.
\* The states are those of a running match: a crashed process has no map.
C2_DockingConsistent ==
    crashed = "no" =>
       \A id \in ShipIds : \A n \in PlanetIdx : ClaimsSlot(id, n) <=> ListsSlot(id, n)

\* The ship of fleet 1, which starts every match undocked, has docked on command
\* and is listed by its planet at the end of a turn.
C2_Witness ==
    /\ pc = "check"
    /\ turn_number >= 1
    /\ \E n \in PlanetIdx : ClaimsSlot(ShipId(1, 0), n) /\ ListsSlot(ShipId(1, 0), n)

(***************************************************************************)
(* Properties of functions.                                                *)
(***************************************************************************)
\* The squared distance of centers at which a target of the probe is d from
\* the surface of the planet
AtSurfaceDistance(d) ==
    (probe.radius + probe.target_radius + d) * (probe.radius + probe.target_radius + d)

\* C11: the explosion damage does not increase with the distance from the
\* surface of the planet; it is 2 * MAX_SHIP_HEALTH at distance 0, falls
\* linearly to MAX_SHIP_HEALTH / 2 towards EXPLOSION_RADIUS, and is 0 at
\* EXPLOSION_RADIUS and beyond.
C11_ExplosionDamage ==
    result.kind = "explosion" /\ probe.d2a >= AtSurfaceDistance(0) =>
       /\ result.a >= result.b
       /\ probe.d2a = AtSurfaceDistance(0) => result.a = 2 * MAX_SHIP_HEALTH
       /\ probe.d2a < AtSurfaceDistance(EXPLOSION_RADIUS) =>
             result.a = (MAX_SHIP_HEALTH * (4 * EXPLOSION_RADIUS
                                            + 3 * (probe.radius + probe.target_radius))
                         - CeilSqrt(9 * MAX_SHIP_HEALTH * MAX_SHIP_HEALTH * probe.d2a))
                        \div (2 * EXPLOSION_RADIUS)
       /\ probe.d2a >= AtSurfaceDistance(EXPLOSION_RADIUS) => result.a = 0

\* The events find_events gives for the ships id1 and id2 of the map
PairEvents(id1, id2) ==
    IF id1 # id2 /\ ships[id1].inmap /\ ships[id2].inmap
    THEN find_events(id1, id2, ships[id1], ships[id2])
    ELSE {}

\* C12: when the events of a sub-step are detected, the candidates of
\* CollisionMap::test for a unit include every other unit that comes within
\* weapon range of it or into contact with it during the sub-step, and every
\* such pair has its event among the events detected.
C12_NoFalseNegative ==
    /\ pc = "events" =>
         \A id1 \in ShipIds : \A id2 \in ShipIds :
            PairEvents(id1, id2) # {} =>
               id2 \in CollisionMapTest(ships, ships[id1].x, ships[id1].y, SHIP_RADIUS)
    /\ pc = "batches" /\ batch_times = << >> =>
         \A id1 \in ShipIds : \A id2 \in ShipIds :
            \A e \in PairEvents(id1, id2) : \E f \in pending : SameEvent(e, f)

(***************************************************************************)
(* Properties of docking.                                                  *)
(***************************************************************************)
\* The dock request of ship id to planet j that process_moves is about to
\* apply is valid on its own.
ValidDock(id, j) ==
    /\ ships[id].inmap
    /\ living_players[player_id(id)]
    /\ player_moves[move_no][id] = Dock(j)
    /\ ships[id].docking_status = "Undocked"
    /\ ships[id].vx = 0 /\ ships[id].vy = 0
    /\ planets[j].health > 0
    /\ can_dock(ships[id], planets[j])
    /\ ~planets[j].frozen

\* Ships of two fleets have valid dock requests to the unowned, empty planet j.
Contention(j) ==
    /\ ~planets[j].owned
    /\ planets[j].docked_ships = {}
    /\ \E id1 \in ShipIds : \E id2 \in ShipIds :
          player_id(id1) # player_id(id2) /\ ValidDock(id1, j) /\ ValidDock(id2, j)

\* No ship of the map is docking, docked or undocking at planet j.
NobodyAt(sh, j) ==
    \A id \in ShipIds :
       sh[id].inmap => sh[id].docking_status = "Undocked" \/ sh[id].docked_planet # j

\* C13: when ships of two fleets send valid dock requests to the same unowned,
\* empty planet in one turn, process_moves leaves the planet unowned, frozen and
\* with no docked ship, and no ship docking there; and while a planet is frozen
\* it stays so to the end of the turn: no later request to it is accepted.
C13_ContentionFreezes ==
    /\ [][pc = "moves" /\ pc' = "events" =>
            \A j \in PlanetIdx :
               Contention(j) =>
                  /\ ~planets'[j].owned
                  /\ planets'[j].frozen
                  /\ planets'[j].docked_ships = {}
                  /\ NobodyAt(ships', j)]_vars
    /\ [](\A j \in PlanetIdx :
             planets[j].frozen /\ crashed = "no" =>
                ~planets[j].owned /\ planets[j].docked_ships = {} /\ NobodyAt(ships, j))

\* Both ships asked to dock at planet 0 in the first turn and the planet is frozen.
C13_Witness ==
    /\ pc = "events"
    /\ turn_number = 1
    /\ player_moves[0][ShipId(0, 0)] = Dock(0)
    /\ player_moves[0][ShipId(1, 0)] = Dock(0)
    /\ planets[0].frozen

\* C14: freezing lasts one turn: when process_docking has run at the start of a
\* turn no planet is frozen, so that a valid dock request of the turn to a
\* planet frozen the turn before is accepted.
C14_Unfrozen == pc = "moves" => \A j \in PlanetIdx : ~planets[j].frozen

\* C15: a planet becomes owned only when a docking completes: in the step that
\* makes an unowned planet owned, a ship of the new owner is Docked there.
C15_OwnedOnCompletion ==
    [][\A j \in PlanetIdx :
          ~planets[j].owned /\ planets'[j].owned =>
             \E i \in planets'[j].docked_ships :
                /\ ships'[ShipId(planets'[j].owner, i)].inmap
                /\ ships'[ShipId(planets'[j].owner, i)].docking_status = "Docked"
                /\ ships'[ShipId(planets'[j].owner, i)].docked_planet = j]_vars

\* Ship id has just started docking at planet j.
StartedDocking(sh, id, j) ==
    /\ sh[id].inmap
    /\ sh[id].docking_status = "Docking"
    /\ sh[id].docking_progress = DOCK_TURNS
    /\ sh[id].docked_planet = j

\* C15, as the program has it: a planet becomes owned when a dock request is
\* accepted.  The step that makes an unowned planet owned is process_moves,
\* and a ship of the new owner has just started docking there; and the planet
\* of every ship that is docking is owned by the fleet of the ship.
C15_OwnedOnRequest ==
    /\ [][\A j \in PlanetIdx :
             ~planets[j].owned /\ planets'[j].owned =>
                /\ pc = "moves"
                /\ \E i \in planets'[j].docked_ships :
                      StartedDocking(ships', ShipId(planets'[j].owner, i), j)]_vars
    /\ [](crashed = "no" =>
            \A id \in ShipIds :
               ships[id].inmap /\ ships[id].docking_status = "Docking" =>
                  /\ planets[ships[id].docked_planet].owned
                  /\ planets[ships[id].docked_planet].owner = player_id(id))

\* Planet 0, unowned at the start, is owned by fleet 1 while its ship is docking.
C15_Witness ==
    /\ planets[0].owned
    /\ planets[0].owner = 1
    /\ StartedDocking(ships, ShipId(1, 0), 0)
    /\ pc = "events"

(***************************************************************************)
(* Properties of the turn.                                                 *)
(***************************************************************************)
\* The successive positions of the program
PhaseOrder ==
    {<<"init", "check">>, <<"check", "docking">>, <<"check", "done">>,
     <<"docking", "moves">>, <<"moves", "events">>, <<"events", "batches">>,
     <<"events", "crashed">>, <<"batches", "crashed">>, <<"batches", "moves">>,
     <<"batches", "production">>, <<"production", "drag">>, <<"drag", "cooldowns">>,
     <<"cooldowns", "frame_end">>, <<"frame_end", "check">>}

\* The ships in the map before and after the step
Staying == {id \in ShipIds : ships[id].inmap /\ ships'[id].inmap}

\* The step advances a docking countdown, completes a docking, or heals a ship.
DockingAdvances ==
    \E id \in Staying :
       \/ /\ ships[id].docking_status = "Docking"
          /\ ships'[id].docking_status \in {"Docking", "Docked"}
          /\ ships'[id].docking_progress = ships[id].docking_progress - 1
       \/ /\ ships[id].docking_status = "Undocking"
          /\ ships'[id].docking_status = "Undocking"
          /\ ships'[id].docking_progress = ships[id].docking_progress - 1
       \/ ships'[id].health > ships[id].health

\* The step applies a command: a ship at rest gains velocity, an undocked ship
\* starts docking, a docked ship starts undocking.
CommandApplied ==
    \E id \in Staying :
       \/ ships[id].vx = 0 /\ ships[id].vy = 0 /\ (ships'[id].vx # 0 \/ ships'[id].vy # 0)
       \/ ships[id].docking_status = "Undocked" /\ ships'[id].docking_status = "Docking"
       \/ ships[id].docking_status = "Docked" /\ ships'[id].docking_status = "Undocking"

ShipMoved == \E id \in Staying : ships'[id].x # ships[id].x \/ ships'[id].y # ships[id].y

Produced ==
    \/ next_index' # next_index
    \/ \E j \in PlanetIdx : planets'[j].current_production # planets[j].current_production

Dragged ==
    \E id \in Staying :
       (ships[id].vx # 0 \/ ships[id].vy # 0) /\ ships'[id].vx = 0 /\ ships'[id].vy = 0

CooledDown == \E id \in Staying : ships'[id].weapon_cooldown < ships[id].weapon_cooldown

Removed(p) ==
    /\ \A id \in ShipIds : player_id(id) = p => ~ships'[id].inmap
    /\ \A j \in PlanetIdx :
          planets[j].owned /\ planets[j].owner = p =>
             planets'[j] = [planets[j] EXCEPT !.owned = FALSE, !.docked_ships = {}]

\* The step leaves the ships and the planets of the fleet p as they are.
Untouched(p) ==
    /\ \A id \in ShipIds : player_id(id) = p => ships'[id] = ships[id]
    /\ \A j \in PlanetIdx :
          planets[j].owned /\ planets[j].owner = p => planets'[j] = planets[j]

\* C17: the steps that kill fleets (the start of the match and the retrieval
\* of the commands) remove every ship of a killed fleet and unown its planets
\* with an empty docked set; they record no DestroyedEvent, deal no damage,
\* and leave every ship and planet of the other fleets and every unowned
\* planet unchanged.
C17_KillPlayerNoSideEffect ==
    [][(pc = "init" \/ (pc = "check" /\ pc' = "docking")) =>
          /\ \A p \in Players : Removed(p) \/ Untouched(p)
          /\ \A j \in PlanetIdx : ~planets[j].owned => planets'[j] = planets[j]
          /\ timeouts_left' = timeouts_left => ships' = ships /\ planets' = planets
          /\ timeouts_left' < timeouts_left => \E p \in Players : Removed(p)
          /\ \A k \in 1 .. Len(frame_events') : frame_events'[k].type # "Destroyed"
          /\ damage_dealt' = damage_dealt
          /\ total_ship_count' = total_ship_count]_vars

\* Fleet 0 started with two ships, one docked at each planet, and was killed
\* in the first turn: its ships are gone, both planets are unowned and empty,
\* and the ship of fleet 1 is still in the map.
C17_Witness ==
    /\ pc = "docking"
    /\ turn_number = 1
    /\ timeouts_left < MaxTimeouts
    /\ next_index[0] = 2
    /\ \A id \in ShipIds : player_id(id) = 0 => ~ships[id].inmap
    /\ \A j \in PlanetIdx : ~planets[j].owned /\ planets[j].docked_ships = {}
    /\ ships[ShipId(1, 0)].inmap

(***************************************************************************)
(* Properties of find_living_players.                                      *)
(***************************************************************************)
HasUnits(w, p) == \E id \in ShipIds : player_id(id) = p /\ w.sh[id].inmap

\* The planet j of w is alive and owned by p, with a ship of p docked there.
HoldsPlanet(w, p, j) ==
    /\ w.pl[j].owned
    /\ w.pl[j].owner = p
    /\ \E i \in w.pl[j].docked_ships :
          w.sh[ShipId(p, i)].inmap /\ w.sh[ShipId(p, i)].docking_status = "Docked"

AlivePlanets(w) == {j \in PlanetIdx : w.pl[j].health > 0}

OwnsAll(w, p) == AlivePlanets(w) # {} /\ \A j \in AlivePlanets(w) : HoldsPlanet(w, p, j)

\* C18: find_living_players reports a fleet alive exactly when it has a unit,
\* except that a fleet holding every alive planet with a completed docking is
\* alone reported alive; a fleet with no units is never reported alive, also
\* when no planet is alive.
C18_Living ==
    result.kind = "living" =>
       /\ \A p \in Players : result.still_alive[p] => HasUnits(probe, p)
       /\ \A p \in Players :
             OwnsAll(probe, p) => \A q \in Players : result.still_alive[q] <=> q = p
       /\ (\A p \in Players : ~OwnsAll(probe, p)) =>
             \A q \in Players : result.still_alive[q] <=> HasUnits(probe, q)

(***************************************************************************)
(* Properties of the loop of run_game.                                     *)
(***************************************************************************)
NumLiving == Cardinality({p \in Players : living_players[p]})

C20_CascadeTerminates == crashed # "stack_overflow"

(***************************************************************************)
(* Properties of the detection of events.                                  *)
(***************************************************************************)
AttackRadius == SHIP_RADIUS + SHIP_RADIUS + WEAPON_RADIUS

\* Squared distance of the ships s1 and s2 at time k / den of the sub-step,
\* times den * den
DistSqAt(s1, s2, k, den) ==
    DistSq(den * s1.x + k * s1.vx, den * s1.y + k * s1.vy,
           den * s2.x + k * s2.vx, den * s2.y + k * s2.vy)

\* The ships s1 and s2 stay farther than r apart during the whole sub-step:
\* the least distance is at time 0, at time 1 or at the vertex between them.
StaysBeyond(s1, s2, r) ==
    LET dx == s1.x - s2.x
        dy == s1.y - s2.y
        dvx == s1.vx - s2.vx
        dvy == s1.vy - s2.vy
        a == dvx * dvx + dvy * dvy
        h == dx * dvx + dy * dvy
    IN  /\ dx * dx + dy * dy > r * r
        /\ DistSqAt(s1, s2, 1, 1) > r * r
        /\ (a > 0 /\ 0 < 0 - h /\ 0 - h < a) =>
              a * (dx * dx + dy * dy) - h * h > a * r * r

\* The two ships of w are id1 and id2, of different fleets, undocked with
\* cooldown 0, start outside weapon range, come within it and never touch.
ClosingPair(w, id1, id2) ==
    /\ {id \in ShipIds : w.sh[id].inmap} = {id1, id2}
    /\ player_id(id1) # player_id(id2)
    /\ \A j \in PlanetIdx : w.pl[j].health = 0
    /\ \A id \in {id1, id2} :
          /\ w.sh[id].docking_status = "Undocked"
          /\ w.sh[id].weapon_cooldown = 0
          /\ within_bounds(w.sh[id].x + w.sh[id].vx, w.sh[id].y + w.sh[id].vy)
    /\ DistSq(w.sh[id1].x, w.sh[id1].y, w.sh[id2].x, w.sh[id2].y)
          > AttackRadius * AttackRadius
    /\ ~StaysBeyond(w.sh[id1], w.sh[id2], AttackRadius)
    /\ StaysBeyond(w.sh[id1], w.sh[id2], SHIP_RADIUS + SHIP_RADIUS)

\* The time T, in units of 1 / EVENT_TIME_PRECISION, is the rounded time at
\* which s1 and s2 come within r: they are farther apart at every half unit
\* before T - 1/2 and within r at a half unit of [T - 1/2, T + 1/2].
IsClosingTime(s1, s2, r, T) ==
    LET den == 2 * EVENT_TIME_PRECISION
    IN  /\ \A k \in 0 .. (2 * T - 2) : DistSqAt(s1, s2, k, den) > den * den * r * r
        /\ \E k \in {2 * T - 1, 2 * T, 2 * T + 1} :
              /\ 0 <= k /\ k <= den
              /\ DistSqAt(s1, s2, k, den) <= den * den * r * r

PairOf(e, id1, id2) == {e.id1, e.id2} = {id1, id2}

\* C21: two undocked ships of different fleets with cooldown 0 that start
\* outside weapon range and come within it without touching get exactly one
\* Attack event, at the closing time, and no Collision event; after the
\* sub-step both have cooldown WEAPON_COOLDOWN and have lost WEAPON_DAMAGE.
C21_ClosingAttack ==
    \A id1, id2 \in ShipIds :
       /\ (pc = "batches" /\ batch_times = << >> /\ ClosingPair(World, id1, id2)) =>
             /\ Cardinality({e \in pending : e.type = "Attack" /\ PairOf(e, id1, id2)}) = 1
             /\ \A e \in pending :
                   /\ e.type # "Collision"
                   /\ e.type = "Attack" =>
                         IsClosingTime(ships[id1], ships[id2], AttackRadius, e.time)
       /\ (pc = "batches" /\ pending = {} /\ last_batch # NoBatch
             /\ ClosingPair(last_batch.w, id1, id2)) =>
             \A id \in {id1, id2} :
                /\ ships[id].inmap
                /\ ships[id].weapon_cooldown = WEAPON_COOLDOWN
                /\ ships[id].health = last_batch.w.sh[id].health - WEAPON_DAMAGE

\* C22: two ships of different fleets that are within weapon range of each
\* other at the start of the sub-step (here: their centers are at most
\* WEAPON_RADIUS apart) get their Attack event at time 0, whatever their
\* velocities.
C22_InRangeAtZero ==
    (pc = "batches" /\ batch_times = << >>) =>
       \A id1, id2 \in ShipIds :
          (/\ ships[id1].inmap /\ ships[id2].inmap
           /\ player_id(id1) # player_id(id2)
           /\ DistSq(ships[id1].x, ships[id1].y, ships[id2].x, ships[id2].y)
                 <= WEAPON_RADIUS * WEAPON_RADIUS) =>
             /\ \E e \in pending : e.type = "Attack" /\ PairOf(e, id1, id2)
             /\ \A e \in pending : e.type = "Attack" /\ PairOf(e, id1, id2) => e.time = 0

(***************************************************************************)
(* Properties of the destruction of a planet.                              *)
(***************************************************************************)
\* The entity id of w is alive and its surface is within EXPLOSION_RADIUS of
\* the surface of planet j.
InExplosion(w, j, id) ==
    /\ id # PlanetId(j)
    /\ IF IsShipId(id) THEN w.sh[id].inmap ELSE TRUE
    /\ EntityHealth(w, id) > 0
    /\ DistLeq(DistSq(w.pl[j].x, w.pl[j].y, EntityX(w, id), EntityY(w, id)),
               w.pl[j].radius + EXPLOSION_RADIUS + EntityRadius(w, id))

\* The damage that the explosion of planet j does to the entity id
ExplosionDamage(w, j, id) ==
    planet_explosion_damage(w.pl[j],
                            DistSq(w.pl[j].x, w.pl[j].y, EntityX(w, id), EntityY(w, id)),
                            EntityRadius(w, id))

HealthAfter(health, damage) == IF health <= damage THEN 0 ELSE health - damage

Touches(w, j, id) ==
    DistSq(w.pl[j].x, w.pl[j].y, EntityX(w, id), EntityY(w, id))
       = (w.pl[j].radius + EntityRadius(w, id)) * (w.pl[j].radius + EntityRadius(w, id))

\* C23: when planet 0 is destroyed (and the cascade ends), the ships of its
\* docked set are Undocked, every other live entity within EXPLOSION_RADIUS of
\* its surface has taken the explosion damage for its distance (and that of
\* planet 1 if planet 1 is destroyed in turn), the entities farther away have
\* not, and a ship that touches the surface is destroyed.
C23_PlanetDestroyed ==
    (result.kind = "kill" /\ ~result.w.overflow) =>
       /\ result.w.pl[0].health = 0
       /\ \A i \in probe.pl[0].docked_ships :
             result.w.sh[ShipId(probe.pl[0].owner, i)].docking_status = "Undocked"
       /\ \A id \in Entities \ {PlanetId(0)} :
             IF InExplosion(probe, 0, id)
             THEN /\ EntityHealth(result.w, id)
                        <= HealthAfter(EntityHealth(probe, id), ExplosionDamage(probe, 0, id))
                  /\ result.w.pl[1].health = probe.pl[1].health =>
                        EntityHealth(result.w, id)
                           = HealthAfter(EntityHealth(probe, id),
                                         ExplosionDamage(probe, 0, id))
                  /\ Touches(probe, 0, id) =>
                        /\ ExplosionDamage(probe, 0, id) >= MAX_SHIP_HEALTH
                        /\ EntityHealth(result.w, id) = 0
             ELSE result.w.pl[1].health = probe.pl[1].health =>
                     EntityHealth(result.w, id) = EntityHealth(probe, id)

\* Planet 0 was destroyed: the docked ship that touched its surface is dead
\* and Undocked, the ship of fleet 0 at 1 from the surface survives with the
\* damage taken, and planet 1 has taken its damage.
C23_Witness ==
    /\ result.kind = "kill"
    /\ ~result.w.overflow
    /\ Touches(probe, 0, ShipId(1, 0))
    /\ probe.sh[ShipId(1, 0)].docking_status = "Docked"
    /\ result.w.sh[ShipId(1, 0)].health = 0
    /\ result.w.sh[ShipId(1, 0)].docking_status = "Undocked"
    /\ probe.sh[ShipId(0, 0)].health = MAX_SHIP_HEALTH
    /\ result.w.sh[ShipId(0, 0)].health \in 1 .. (MAX_SHIP_HEALTH - 1)
    /\ result.w.pl[1].health \in 1 .. (probe.pl[1].health - 1)

(***************************************************************************)
(* Properties of the resolution of a batch.                                *)
(***************************************************************************)
\* The Collision events of the latest batch between a ship and a planet that
\* were both alive when the batch was popped
PlanetCollisions ==
    {e \in Range(last_batch.evs) :
        /\ e.type = "Collision"
        /\ IsShipId(e.id1) /\ ~IsShipId(e.id2)
        /\ IsAlive(last_batch.w, e.id1) /\ IsAlive(last_batch.w, e.id2)}

\* C24: in a Collision of a ship with a planet the ship is destroyed and the
\* planet takes damage equal to the health the ship had when the batch was
\* popped, whichever other events of the batch the ship takes part in: the
\* planet has lost at least that much, and exactly that much when nothing
\* else of the batch reaches the planet.
C24_PlanetCollision ==
    AfterBatch =>
       \A e \in PlanetCollisions :
          LET before == last_batch.w
              j == entity_index(e.id2)
              taken == HealthAfter(before.pl[j].health, before.sh[e.id1].health)
          IN  /\ ~ships[e.id1].inmap
              /\ planets[j].health <= taken
              /\ (/\ \A f \in Range(last_batch.evs) : f.id2 = e.id2 => f = e
                  /\ \A k \in PlanetIdx \ {j} : planets[k].health = before.pl[k].health) =>
                    planets[j].health = taken

\* The ship src cannot attack in the latest batch: when the batch was popped
\* it had a cooldown or was not Undocked, or it died in the first loop over
\* the batch.
Unable(src) ==
    /\ last_batch.w.sh[src].inmap
    /\ \/ last_batch.w.sh[src].weapon_cooldown > 0
       \/ last_batch.w.sh[src].docking_status # "Undocked"
       \/ LastLoops.w.sh[src].health = 0

\* C25: a ship that is dead, has a cooldown or is not Undocked when a batch is
\* resolved deals no attack damage in the batch, keeps its cooldown, is not
\* recorded as an attacker and adds nothing to the damage_dealt of its fleet.
C25_UnableAttacker ==
    AfterBatch =>
       /\ \A src \in ShipIds :
             Unable(src) =>
                /\ \A k \in DOMAIN LastLoops.contrib : LastLoops.contrib[k].src # src
                /\ ships[src].inmap =>
                      ships[src].weapon_cooldown = last_batch.w.sh[src].weapon_cooldown
                /\ \A e \in NewEvents(last_batch.w, World) : e.kind = "Attack" => e.id # src
                /\ LastLoops.target_count[src] = 0
       /\ \A p \in Players :
             (\A src \in ShipIds : player_id(src) = p /\ last_batch.w.sh[src].inmap
                                      => Unable(src)) =>
                damage_dealt[p] = last_batch.w.dealt[p]

(***************************************************************************)
(* Properties of the dock requests                                         *)
(***************************************************************************)

\* The node named by the request of the probe holds as many ships as it has
\* docking spots.
AtCapacity(w, j) == Cardinality(w.pl[j].docked_ships) >= w.pl[j].docking_spots

\* The request of ship id for node j fails one of the checks of the list;
\* capacity tells whether the node counts as being at capacity.
FailsValidation(w, id, j, capacity) ==
    \/ w.sh[id].docking_status # "Undocked"
    \/ w.sh[id].vx # 0
    \/ w.sh[id].vy # 0
    \/ j >= NumPlanets
    \/ /\ j < NumPlanets
       /\ \/ w.pl[j].health = 0
          \/ ~DistLeq(DistSq(w.sh[id].x, w.sh[id].y, w.pl[j].x, w.pl[j].y),
                      SHIP_RADIUS + w.pl[j].radius + DOCK_RADIUS)
          \/ w.pl[j].frozen
          \/ capacity

\* The request left the docking state of the ship and the owner, the owned
\* flag, the frozen flag and the docked set of every node as they were.
DockIgnored ==
    /\ result.w.sh[probe.id].docking_status = probe.sh[probe.id].docking_status
    /\ result.w.sh[probe.id].docked_planet = probe.sh[probe.id].docked_planet
    /\ result.w.sh[probe.id].docking_progress = probe.sh[probe.id].docking_progress
    /\ \A j \in PlanetIdx :
          /\ result.w.pl[j].owner = probe.pl[j].owner
          /\ result.w.pl[j].owned = probe.pl[j].owned
          /\ result.w.pl[j].frozen = probe.pl[j].frozen
          /\ result.w.pl[j].docked_ships = probe.pl[j].docked_ships

\* C26 as stated: a dock request that fails validation (target out of range,
\* node not alive, unit too far, unit not Undocked, velocity not zero, node
\* frozen, or node at docking capacity) leaves the docking state of the unit
\* and the owner, owned flag, frozen flag and docked set of the node unchanged.
C26_FailedDockIgnored ==
    (result # NoProbe /\ result.kind = "dock") =>
       (FailsValidation(probe, probe.id, probe.to,
                        probe.to < NumPlanets /\ AtCapacity(probe, probe.to))
           => DockIgnored)

\* C26 amended: the same, where a node at capacity counts as a failed
\* validation only when it is held by the fleet of the unit or when not all
\* of its docked units began to dock in this turn.
C26_FailedDockIgnoredOwnFleet ==
    (result # NoProbe /\ result.kind = "dock") =>
       (FailsValidation(probe, probe.id, probe.to,
                        /\ probe.to < NumPlanets
                        /\ AtCapacity(probe, probe.to)
                        /\ \/ probe.pl[probe.to].owner = player_id(probe.id)
                           \/ ~JustStarted(probe, probe.to))
           => DockIgnored)

\* A request that passes every check but the capacity of a node of its own
\* fleet has been handled.
C26_Witness ==
    /\ result # NoProbe
    /\ result.kind = "dock"
    /\ probe.to = 0
    /\ ~FailsValidation(probe, probe.id, probe.to, FALSE)
    /\ probe.pl[0].owned
    /\ probe.pl[0].owner = player_id(probe.id)
    /\ AtCapacity(probe, 0)

\* A ship that is docking, docked or undocking
Moored(sh, id) == sh[id].inmap /\ sh[id].docking_status # "Undocked"

AtRest ==
    \A id \in ShipIds : Moored(ships, id) => (ships[id].vx = 0 /\ ships[id].vy = 0)

StaysInPlace ==
    \A id \in ShipIds :
       (Moored(ships, id) /\ ships'[id].inmap) =>
          (ships'[id].x = ships[id].x /\ ships'[id].y = ships[id].y)

WithinSpots ==
    \A j \in PlanetIdx :
       Cardinality(planets[j].docked_ships) <= planets[j].docking_spots

\* Every slot of the docked set of a live planet names a ship of the fleet that
\* owns the planet, docking, docked or undocking there.
DockedAreOwners ==
    \A j \in PlanetIdx :
       planets[j].health > 0 =>
          \A i \in planets[j].docked_ships :
             /\ planets[j].owned
             /\ ships[ShipId(planets[j].owner, i)].inmap
             /\ ships[ShipId(planets[j].owner, i)].docking_status # "Undocked"
             /\ ships[ShipId(planets[j].owner, i)].docked_planet = j

\* C28: in every state of a running match the docked set of a node holds at
\* most docking_spots slots, and all its slots are units of the one fleet that
\* owns the node.
C28_DockedSet == pc # "crashed" => (WithinSpots /\ DockedAreOwners)

\* A ship asked to dock at a node of its own fleet that is full, with every
\* other check passed, and the request has been processed.
C28_Witness ==
    /\ pc = "events"
    /\ \E id \in ShipIds : \E j \in PlanetIdx :
          /\ player_moves[move_no][id] = Dock(j)
          /\ ships[id].inmap
          /\ ships[id].docking_status = "Undocked"
          /\ ships[id].vx = 0
          /\ ships[id].vy = 0
          /\ planets[j].health > 0
          /\ can_dock(ships[id], planets[j])
          /\ ~planets[j].frozen
          /\ planets[j].owned
          /\ planets[j].owner = player_id(id)
          /\ Cardinality(planets[j].docked_ships) = planets[j].docking_spots

(***************************************************************************)
(* Properties of collision_time                                            *)
(*                                                                         *)
(* The squared distance of the two bodies at time t, less r * r, is        *)
(* QuadA * t * t + QuadB * t + QuadC.                                      *)
(***************************************************************************)
QuadA == probe.vx * probe.vx + probe.vy * probe.vy

QuadB == 2 * (probe.x * probe.vx + probe.y * probe.vy)

QuadC == probe.x * probe.x + probe.y * probe.y - probe.r * probe.r

\* The quadratic has a zero in [0, 1], by the signs at both ends and the place
\* of its minimum; QuadA > 0.
HasRootInUnit ==
    /\ QuadB * QuadB - 4 * QuadA * QuadC >= 0
    /\ \/ QuadC = 0
       \/ QuadA + QuadB + QuadC = 0
       \/ (QuadC > 0 /\ QuadA + QuadB + QuadC < 0)
       \/ (QuadC < 0 /\ QuadA + QuadB + QuadC > 0)
       \/ /\ QuadC > 0
          /\ QuadA + QuadB + QuadC > 0
          /\ QuadB < 0
          /\ 0 - QuadB < 2 * QuadA

\* The time t = (n + sg * sqrt(s)) / d is a zero of the quadratic: the
\* rational and the irrational part of the quadratic at t both vanish.
IsRoot(t) ==
    /\ QuadA * (t.n * t.n + t.s) + QuadB * t.d * t.n + QuadC * t.d * t.d = 0
    /\ t.sg * (2 * QuadA * t.n + QuadB * t.d) = 0

\* No zero of the quadratic lies in [0, t): bodies apart at time 0 are still
\* closing at t, bodies that touch at time 0 have t = 0, and for bodies that
\* overlap at time 0 the quadratic has one zero after 0 only.
IsEarliest(t) ==
    /\ QuadC > 0 => NumGE0(0 - (2 * QuadA * t.n + QuadB * t.d), 0 - t.sg,
                           4 * QuadA * QuadA * t.s)
    /\ QuadC = 0 => NumGE0(0 - t.n, 0 - t.sg, t.s)

\* C29: with a relative velocity, collision_time and the range check of its
\* caller give an event exactly when the distance equals r at some t in
\* [0, 1], at the earliest such t; without relative velocity the result is
\* time 0 when the bodies overlap and no root otherwise.
C29_CollisionTime ==
    (result # NoProbe /\ result.kind = "time") =>
       IF QuadA = 0
       THEN /\ result.t.ok <=> QuadC <= 0
            /\ result.t.ok => (result.t.n = 0 /\ result.t.sg = 0)
       ELSE /\ result.event <=> HasRootInUnit
            /\ result.event => (IsRoot(result.t) /\ IsEarliest(result.t))

\* An event for bodies that overlap at time 0 and move apart: the later root
\* is taken.
C29_Witness ==
    /\ result # NoProbe
    /\ result.kind = "time"
    /\ result.event
    /\ QuadA > 0
    /\ QuadC < 0
    /\ result.t.sg = 1

(***************************************************************************)
(* Properties of the spatial index                                         *)
(***************************************************************************)

\* C30: CollisionMap::test reads only cells of the grid, for every position of
\* the map and every radius: a neighbour beyond the first or last row or
\* column is not visited and no access is out of range.
C30_TestInGrid ==
    (result # NoProbe /\ result.kind = "test") =>
       /\ \A c \in result.cells : CellExists(c)
       /\ ~result.throws

(***************************************************************************)
(* Properties of the docking state of a ship                               *)
(***************************************************************************)
DockingPhase == pc = "docking" /\ pc' = "moves"

MovesPhase == pc = "moves" /\ pc' = "events"

\* Planet j is destroyed in the step
NodeGone(j) == planets[j].health > 0 /\ planets'[j].health = 0

\* The docking at planet j is reverted by a contention in the step
NodeReverted(j) == ~planets[j].frozen /\ planets'[j].frozen

\* The step changes the docking state of ship id along the cycle only, or back
\* to Undocked with its planet destroyed or its docking reverted; a countdown
\* loses 1 in every docking phase and nothing elsewhere, and ends at 0.
DockingStepOK(id) ==
    LET s == ships[id]
        n == ships'[id]
        j == ships[id].docked_planet
    IN  IF s.docking_status = n.docking_status THEN
            s.docking_status \in {"Docking", "Undocking"} =>
               IF DockingPhase
               THEN n.docking_progress = s.docking_progress - 1 /\ n.docking_progress > 0
               ELSE n.docking_progress = s.docking_progress
        ELSE IF s.docking_status = "Undocked" THEN
            /\ n.docking_status = "Docking"
            /\ MovesPhase
            /\ n.docking_progress = DOCK_TURNS
            /\ entity_index(id) \in planets'[n.docked_planet].docked_ships
        ELSE IF s.docking_status = "Docking" THEN
            \/ /\ n.docking_status = "Docked"
               /\ DockingPhase
               /\ s.docking_progress = 1
               /\ n.docking_progress = 0
            \/ /\ n.docking_status = "Undocked"
               /\ NodeGone(j) \/ NodeReverted(j)
        ELSE IF s.docking_status = "Docked" THEN
            \/ /\ n.docking_status = "Undocking"
               /\ MovesPhase
               /\ n.docking_progress = DOCK_TURNS
            \/ /\ n.docking_status = "Undocked"
               /\ NodeGone(j)
        ELSE /\ n.docking_status = "Undocked"
             /\ \/ /\ DockingPhase
                   /\ s.docking_progress = 1
                   /\ entity_index(id) \notin planets'[j].docked_ships
                \/ NodeGone(j)

DockingCycle ==
    pc' # "crashed" =>
       \A id \in ShipIds : (ships[id].inmap /\ ships'[id].inmap) => DockingStepOK(id)

\* The countdown of a ship in the map is within 0 .. DOCK_TURNS, and above 0
\* while the ship is docking or undocking.
ProgressInRange ==
    \A id \in ShipIds :
       ships[id].inmap =>
          /\ ships[id].docking_progress \in 0 .. DOCK_TURNS
          /\ ships[id].docking_status \in {"Docking", "Undocking"} =>
                 ships[id].docking_progress > 0

\* C31: the docking state of a unit changes only along Undocked -> Docking ->
\* Docked -> Undocking -> Undocked, or back to Undocked when its node is
\* destroyed or its docking is reverted; a countdown set to DOCK_TURNS loses
\* exactly 1 per call of process_docking, the unit becomes Docked or Undocked
\* (releasing its slot) in the call that brings it to 0, and docking_progress
\* is never below 0.
C31_DockingCycle == [](pc # "crashed" => ProgressInRange) /\ [][DockingCycle]_vars

\* The ship that began the match just accepted for docking is docked after
\* DOCK_TURNS docking phases.
C31_Witness ==
    /\ turn_number = DOCK_TURNS
    /\ pc = "moves"
    /\ ships[ShipId(0, 0)].inmap
    /\ ships[ShipId(0, 0)].docking_status = "Docked"
    /\ ships[ShipId(0, 0)].docking_progress = 0
    /\ planets[0].health > 0
    /\ 0 \in planets[0].docked_ships

(***************************************************************************)
(* Properties of the weapon cooldown                                       *)
(***************************************************************************)
CooldownInRange ==
    \A id \in ShipIds :
       ships[id].inmap => ships[id].weapon_cooldown \in 0 .. WEAPON_COOLDOWN

\* The ships that added damage to a target in the latest batch
LastShooters ==
    {LastLoops.contrib[k].src : k \in DOMAIN LastLoops.contrib}

\* The ships recorded as attackers in the turn before the latest batch
EarlierAttackers ==
    {last_batch.w.ev[i].id : i \in {n \in DOMAIN last_batch.w.ev :
                                        last_batch.w.ev[n].kind = "Attack"}}

\* A ship that added damage in the latest batch had cooldown 0 before it, has
\* cooldown WEAPON_COOLDOWN after it and had not attacked before in the turn.
FiresOncePerTurn ==
    AfterBatch =>
       \A src \in LastShooters :
          /\ last_batch.w.sh[src].weapon_cooldown = 0
          /\ ships[src].inmap => ships[src].weapon_cooldown = WEAPON_COOLDOWN
          /\ src \notin EarlierAttackers

\* The cooldown of a ship loses 1 while positive at the end of the turn, and is
\* otherwise changed only by a batch that sets it from 0 to WEAPON_COOLDOWN.
CooldownStep ==
    \A id \in ShipIds :
       (ships[id].inmap /\ ships'[id].inmap) =>
          IF pc = "cooldowns"
          THEN ships'[id].weapon_cooldown =
                  IF ships[id].weapon_cooldown > 0 THEN ships[id].weapon_cooldown - 1 ELSE 0
          ELSE \/ ships'[id].weapon_cooldown = ships[id].weapon_cooldown
               \/ /\ pc = "batches"
                  /\ ships[id].weapon_cooldown = 0
                  /\ ships'[id].weapon_cooldown = WEAPON_COOLDOWN

\* C32: the weapon cooldown stays within 0 .. WEAPON_COOLDOWN and loses exactly
\* 1 per turn while positive; a unit that dealt attack damage in a batch deals
\* none in a later batch of the same turn.
C32_Cooldown == [](CooldownInRange /\ FiresOncePerTurn) /\ [][CooldownStep]_vars

\* A ship that attacked earlier in the turn is, undocked and alive, part of an
\* Attack event of the latest batch.
C32_Witness ==
    /\ AfterBatch
    /\ \E src \in EarlierAttackers :
          /\ ships[src].inmap
          /\ last_batch.w.sh[src].docking_status = "Undocked"
          /\ last_batch.w.sh[src].weapon_cooldown = WEAPON_COOLDOWN
          /\ \E i \in DOMAIN last_batch.evs :
                /\ last_batch.evs[i].type = "Attack"
                /\ src \in {last_batch.evs[i].id1, last_batch.evs[i].id2}

(***************************************************************************)
(* Properties of the DestroyedEvents                                       *)
(***************************************************************************)

\* C33: at most one DestroyedEvent is recorded for an entity, also when the
\* entity is damaged again during the cascade that its own destruction started.
C33_DestroyedOnce ==
    \A i, j \in DOMAIN frame_events :
       (/\ i < j
        /\ frame_events[i].kind = "Destroyed"
        /\ frame_events[j].kind = "Destroyed")
          => frame_events[i].id # frame_events[j].id

(***************************************************************************)
(* Properties of damage_dealt                                              *)
(***************************************************************************)

\* The damage that the ships of fleet p added to their targets in the
\* contributions k .. Len(contrib), in units of 1 / DamageDenom.
RECURSIVE Inflicted(_, _, _)
Inflicted(contrib, p, k) ==
    IF k > Len(contrib) THEN 0
    ELSE (IF player_id(contrib[k].src) = p THEN contrib[k].amount ELSE 0)
         + Inflicted(contrib, p, k + 1)

\* The ships of fleet p that fired in the latest batch
Fired(p) == {src \in LastShooters : player_id(src) = p}

\* C34: in each batch the damage_dealt of a fleet grows by the damage its
\* attackers added to their targets, which is WEAPON_DAMAGE for each attacker
\* that fired, however many targets it engaged, and nothing for the others.
C34_DamageDealt ==
    AfterBatch =>
       \A p \in Players :
          /\ (damage_dealt[p] - last_batch.w.dealt[p]) * DamageDenom
                = Inflicted(LastLoops.contrib, p, 1)
          /\ damage_dealt[p] - last_batch.w.dealt[p]
                = WEAPON_DAMAGE * Cardinality(Fired(p))

(***************************************************************************)
(* Properties of the production                                            *)
(***************************************************************************)
Stock(planet) == planet.remaining_production + planet.current_production

\* The production that planet j turned into ships in process_production
Spent(j) == Stock(probe.pl[j]) - Stock(result.w.pl[j])

\* The production that the planets j .. NumPlanets - 1 of fleet p turned into ships
RECURSIVE SpentBy(_, _)
SpentBy(p, j) ==
    IF j >= NumPlanets THEN 0
    ELSE (IF probe.pl[j].owned /\ probe.pl[j].owner = p THEN Spent(j) ELSE 0)
         + SpentBy(p, j + 1)

\* The ships of fleet p that process_production put in the map
SpawnedOf(p) ==
    {id \in ShipIds : player_id(id) = p /\ result.w.sh[id].inmap /\ ~probe.sh[id].inmap}

\* Planet j is alive and owned with a ship docked
Productive(j) ==
    /\ probe.pl[j].health > 0
    /\ probe.pl[j].owned
    /\ num_docked_ships(probe, probe.pl[j]) >= 1

\* A free location is left for a ship of planet j after process_production
CanStillSpawn(j) ==
    best_location([sh |-> result.w.sh, pl |-> result.w.pl], result.w.pl[j], 1, NoLocation).ok

StaysDead == \A p \in Players : ~living_players[p] => ~living_players'[p]

\* No fleet is in the rankings twice
RankedOnce == \A i, k \in 1 .. Len(rankings) : i # k => rankings[i] # rankings[k]

\* rank of the statistics (lines 1000-1003): the place of the first entry of
\* the fleet in the rankings
RankOf(p) ==
    CHOOSE i \in 1 .. Len(rankings) :
       rankings[i] = p /\ \A k \in 1 .. (i - 1) : rankings[k] # p

\* At the end of the match the rankings hold every fleet and the ranks are
\* 1 .. number_of_players.
FinalRanks ==
    pc = "done" =>
       /\ Len(rankings) = NumPlayers
       /\ \A p \in Players : \E i \in 1 .. Len(rankings) : rankings[i] = p
       /\ {RankOf(p) : p \in Players} = 1 .. NumPlayers

\* C36: over a whole match a fleet reported dead is never reported alive
\* again, every fleet is appended to the rankings exactly once, and the final
\* ranks are a permutation of 1 .. number_of_players.
C36_RankedOnce == [](RankedOnce /\ FinalRanks) /\ [][StaysDead]_vars

====
